---- MODULE Spec2Model ----
(***************************************************************************)
(* Model of the estimation backend: the in-memory store services           *)
(* (ProposalStoreService, ReportJobService, ContractStoreService), the     *)
(* SAM.gov contract sync run (_sync_sam_contracts) and the management      *)
(* reserve arithmetic of CalculationService.calculate_estimate.            *)
(***************************************************************************)
EXTENDS Integers, Sequences, FiniteSets, TLC

(***************************************************************************)
(* Bounds of the model.                                                    *)
(***************************************************************************)
MaxProposals == 1     \* proposals created
MaxVersions == 2      \* version rows in the store, over all proposals
MaxDocuments == 1     \* document rows in the store, over all proposals
MaxThreadVersions == 3  \* version rows in the store shared by threads
MaxJobs == 2           \* jobs in the registry
MaxJobClock == 4       \* the last clock tick of the job registry
MaxContracts == 2      \* contracts in the contract store
MaxContractClock == 3  \* the last clock tick of the contract store
MaxClock == 3         \* the last clock tick

(***************************************************************************)
(* Python's None.  Optional strings use the string NoneStr, optional       *)
(* records (dict or None) use the record None.                             *)
(***************************************************************************)
None == [is_none |-> TRUE]
NoneStr == "<None>"
NoneInt == -1

\* Python truthiness of an Optional[str]: None and "" are falsy.
Falsy(s) == s = NoneStr \/ s = ""

Emails == {"a@example.com", "b@example.com"}
ProposalIds == {"prop_1", "prop_2"}
DocumentIds == {"doc_1", "doc_2"}
\* the (title, payload) arguments the calls are made with
TitlePayloads == {<<NoneStr, "p1">>, <<"", "p2">>, <<"T1", "p2">>}
Threads == {"t1", "t2"}

VARIABLES
    proposals_mem,   \* ProposalStoreService._proposals_mem: proposal_id -> proposal
    versions_mem,    \* ProposalStoreService._versions_mem: proposal_id -> list of versions
    documents_mem,   \* ProposalStoreService._documents_mem: proposal_id -> document_id -> row
    threads,         \* position and locals of each concurrent create_version call
    ret              \* the last completed call: its name, arguments and result

storeVars == <<proposals_mem, versions_mem, documents_mem>>

VARIABLES
    clock,           \* datetime.utcnow(), in ticks of TickMinutes minutes
    SAM_API_KEY,     \* main.py 73: whether the key is configured
    SAM_SYNC_LOCK,   \* main.py 84: the invocation holding the lock, or NoneStr
    SAM_SYNC_STATE,  \* main.py 83: the in-process summary of the last run
    sync_state,      \* the committed contract_sync_state row of source "sam.gov"
    contracts,       \* the committed contract_opportunities rows, by source_id
    runs,            \* position and locals of each _sync_sam_contracts invocation
    fetches          \* day -> number of fetch_sam_opportunities calls issued that day

VARIABLES
    jobs_memory,     \* ReportJobService._memory: job_id -> job
    contracts_mem    \* ContractStoreService._contracts_mem: contract_id -> row

svcVars == <<jobs_memory, contracts_mem>>

VARIABLES
    est_input        \* the EstimationInput given to CalculationService

samVars == <<SAM_API_KEY, SAM_SYNC_LOCK, SAM_SYNC_STATE, sync_state, contracts, runs,
             fetches>>
syncVars == <<clock, samVars>>

(***************************************************************************)
(* The process environment the three store services read in __init__:      *)
(* the table names, AWS_LAMBDA_FUNCTION_NAME, and whether boto3 could be   *)
(* imported.  A service holds DynamoDB tables only when boto3 is there and *)
(* all its table names are non-empty; the tables themselves are outside    *)
(* the model, so the environments explored leave every service without.    *)
(***************************************************************************)
VARIABLES
    env              \* os.environ and the boto3 import, as read by the constructors

Env(boto3, fn, p, v, d, j, c, s) ==
    [boto3 |-> boto3, AWS_LAMBDA_FUNCTION_NAME |-> fn,
     PROPOSALS_TABLE_NAME |-> p, PROPOSAL_VERSIONS_TABLE_NAME |-> v,
     PROPOSAL_DOCUMENTS_TABLE_NAME |-> d, REPORT_JOBS_TABLE_NAME |-> j,
     CONTRACTS_TABLE_NAME |-> c, CONTRACT_SYNC_TABLE_NAME |-> s]

\* os.getenv(name)
getenv(name) == env[name]

\* self.in_lambda = bool(os.getenv("AWS_LAMBDA_FUNCTION_NAME"))
in_lambda == ~Falsy(getenv("AWS_LAMBDA_FUNCTION_NAME"))

\* ProposalStoreService.__init__: the three tables, all or none
ProposalStoreService_tables ==
    /\ env.boto3
    /\ ~Falsy(getenv("PROPOSALS_TABLE_NAME"))
    /\ ~Falsy(getenv("PROPOSAL_VERSIONS_TABLE_NAME"))
    /\ ~Falsy(getenv("PROPOSAL_DOCUMENTS_TABLE_NAME"))

ProposalStoreService_mode == IF ProposalStoreService_tables THEN "dynamo" ELSE "memory"

ProposalStoreService_is_configured ==
    IF ProposalStoreService_tables THEN TRUE ELSE ~in_lambda

\* ReportJobService.__init__: self.table
ReportJobService_table == env.boto3 /\ ~Falsy(getenv("REPORT_JOBS_TABLE_NAME"))

ReportJobService_mode == IF ReportJobService_table THEN "dynamo" ELSE "memory"

ReportJobService_is_configured == IF ReportJobService_table THEN TRUE ELSE ~in_lambda

\* ContractStoreService.__init__: self.contracts and self.sync, both or none
ContractStoreService_tables ==
    /\ env.boto3
    /\ ~Falsy(getenv("CONTRACTS_TABLE_NAME"))
    /\ ~Falsy(getenv("CONTRACT_SYNC_TABLE_NAME"))

ContractStoreService_mode == IF ContractStoreService_tables THEN "dynamo" ELSE "memory"

ContractStoreService_is_configured ==
    IF ContractStoreService_tables THEN TRUE ELSE ~in_lambda

\* local development: nothing set
DevEnv == Env(TRUE, NoneStr, NoneStr, NoneStr, NoneStr, NoneStr, NoneStr, NoneStr)

\* the environments explored: names unset, empty, partly set, or set with
\* boto3 missing; inside and outside Lambda
Environments ==
    { DevEnv,
      Env(TRUE, "fn", NoneStr, NoneStr, NoneStr, NoneStr, NoneStr, NoneStr),
      Env(TRUE, "fn", "", "", "", "", "", ""),
      Env(TRUE, "fn", "t1", NoneStr, "t3", NoneStr, "t5", ""),
      Env(FALSE, "fn", "t1", "t2", "t3", "t4", "t5", "t6"),
      Env(TRUE, "", "", "", "", "", "", "") }

\* raise RuntimeError("... is not configured ...")
raise_not_configured(op) == ret' = [op |-> op, status |-> "RuntimeError"]

(***************************************************************************)
(* ProposalStoreService, memory mode (self.proposals is None).             *)
(***************************************************************************)

\* dict.get(key) on a TLA+ function used as a dict
DictGet(d, k, default) == IF k \in DOMAIN d THEN d[k] ELSE default

\* d[k] = v
DictSet(d, k, v) == [x \in DOMAIN d \cup {k} |-> IF x = k THEN v ELSE d[x]]

\* d.pop(k, None)
DictPop(d, k) == [x \in DOMAIN d \ {k} |-> d[x]]

\* new_proposal_id / new_document_id: a token not yet in use
new_proposal_id == CHOOSE p \in ProposalIds : p \notin DOMAIN proposals_mem
new_document_id(pid) == CHOOSE d \in DocumentIds : d \notin DOMAIN DictGet(documents_mem, pid, <<>>)

get_owned_proposal_anyone(proposal_id, owner_email) ==
    DictGet(proposals_mem, proposal_id, None)

get_owned_proposal(proposal_id, owner_email) ==
    LET item == DictGet(proposals_mem, proposal_id, None)
    IN  IF item = None \/ item.owner_email # owner_email THEN None ELSE item

\* next_version = int(versions[-1]["version"]) + 1 if versions else 1
next_version_same(versions) ==
    IF Len(versions) > 0 THEN versions[Len(versions)].version ELSE 1

next_version_of(versions) ==
    IF Len(versions) > 0 THEN versions[Len(versions)].version + 1 ELSE 1

\* rows.sort(key=version): stable insertion sort, as list.sort is stable
RECURSIVE InsertByVersion(_, _)
InsertByVersion(row, sorted) ==
    IF sorted = <<>> THEN <<row>>
    ELSE IF row.version < Head(sorted).version THEN <<row>> \o sorted
    ELSE <<Head(sorted)>> \o InsertByVersion(row, Tail(sorted))

RECURSIVE SortByVersion(_)
SortByVersion(rows) ==
    IF rows = <<>> THEN <<>>
    ELSE LET n == Len(rows)
         IN  InsertByVersion(rows[n], SortByVersion(SubSeq(rows, 1, n - 1)))

list_versions(proposal_id, owner_email) ==
    IF get_owned_proposal(proposal_id, owner_email) = None THEN <<>>
    ELSE SortByVersion(DictGet(versions_mem, proposal_id, <<>>))

\* get_version on a given content of the store: the first stored version
\* whose number matches, else None
get_version_in(proposals, versions, proposal_id, version, owner_email) ==
    LET item == DictGet(proposals, proposal_id, None)
    IN  IF item = None \/ item.owner_email # owner_email THEN None
        ELSE LET vs == DictGet(versions, proposal_id, <<>>)
                 hits == {i \in 1..Len(vs) : vs[i].version = version}
             IN  IF hits = {} THEN None
                 ELSE vs[CHOOSE i \in hits : \A j \in hits : i <= j]

get_version(proposal_id, version, owner_email) ==
    IF get_owned_proposal(proposal_id, owner_email) = None THEN None
    ELSE get_version_in(proposals_mem, versions_mem, proposal_id, version, owner_email)

\* documents of the proposal, optionally filtered by version (as a set: the
\* created_at ordering of the rows is not modelled)
list_documents(proposal_id, owner_email, version) ==
    IF get_owned_proposal(proposal_id, owner_email) = None THEN {}
    ELSE LET docs == DictGet(documents_mem, proposal_id, <<>>)
             rows == {docs[d] : d \in DOMAIN docs}
         IN  IF version # NoneInt
             THEN {r \in rows : r.version # NoneInt /\ r.version = version}
             ELSE rows

get_document(proposal_id, document_id, owner_email) ==
    IF get_owned_proposal(proposal_id, owner_email) = None THEN None
    ELSE DictGet(DictGet(documents_mem, proposal_id, <<>>), document_id, None)

(***************************************************************************)
(* Writes of ProposalStoreService.                                         *)
(***************************************************************************)

\* the number of version rows in the store
RECURSIVE SumLen(_, _)
SumLen(d, keys) ==
    IF keys = {} THEN 0
    ELSE LET k == CHOOSE x \in keys : TRUE
         IN  Len(d[k]) + SumLen(d, keys \ {k})

TotalVersions == SumLen(versions_mem, DOMAIN versions_mem)

\* the number of document rows in the store
RECURSIVE SumCard(_, _)
SumCard(d, keys) ==
    IF keys = {} THEN 0
    ELSE LET k == CHOOSE x \in keys : TRUE
         IN  Cardinality(DOMAIN d[k]) + SumCard(d, keys \ {k})

TotalDocuments == SumCard(documents_mem, DOMAIN documents_mem)

create_proposal(owner_email, title, payload) ==
    IF ~ProposalStoreService_is_configured
    THEN /\ raise_not_configured("create_proposal")
         /\ UNCHANGED <<storeVars, threads>>
    ELSE
         /\ Cardinality(DOMAIN proposals_mem) < MaxProposals
         /\ TotalVersions < MaxVersions
         /\ LET proposal_id == new_proposal_id
                proposal == [proposal_id |-> proposal_id, owner_email |-> owner_email,
                             title |-> title, payload |-> payload]
                version == [proposal_id |-> proposal_id, version |-> 1,
                            title |-> title, payload |-> payload]
            IN  /\ proposals_mem' = DictSet(proposals_mem, proposal_id, proposal)
                /\ versions_mem' = DictSet(versions_mem, proposal_id, <<version>>)
                /\ documents_mem' = DictSet(documents_mem, proposal_id,
                                            DictGet(documents_mem, proposal_id, <<>>))
                /\ ret' = [op |-> "create_proposal", proposal_id |-> proposal_id,
                           owner_email |-> owner_email, status |-> "ok", result |-> proposal]
         /\ UNCHANGED threads

\* the version row built at lines 230-237
version_row(proposal, proposal_id, title, payload, next_version) ==
    [proposal_id |-> proposal_id, version |-> next_version,
     title |-> IF Falsy(title) THEN proposal.title ELSE title,
     payload |-> payload]

\* lines 238-241 with the title assigned whatever it is
proposal_row_titled(proposal, title, payload) ==
    [proposal EXCEPT !.payload = payload, !.title = title]

\* the caller's copy of the proposal after lines 238-241
proposal_row(proposal, title, payload) ==
    [proposal EXCEPT !.payload = payload,
                     !.title = IF title # NoneStr THEN title ELSE @]

\* lines 251-253 with the version list assigned instead of appended to
store_version_assign(proposal_id, proposal, version) ==
    /\ proposals_mem' = DictSet(proposals_mem, proposal_id, proposal)
    /\ versions_mem' = DictSet(versions_mem, proposal_id, <<version>>)

\* lines 251-253: store the proposal copy, append the version
store_version(proposal_id, proposal, version) ==
    /\ proposals_mem' = DictSet(proposals_mem, proposal_id, proposal)
    /\ versions_mem' = DictSet(versions_mem, proposal_id,
                               Append(DictGet(versions_mem, proposal_id, <<>>), version))

\* create_version run without interleaving
create_version(proposal_id, owner_email, title, payload) ==
    IF ~ProposalStoreService_is_configured
    THEN /\ raise_not_configured("create_version")
         /\ UNCHANGED <<storeVars, threads>>
    ELSE
         LET proposal == get_owned_proposal(proposal_id, owner_email)
             call == [op |-> "create_version", proposal_id |-> proposal_id,
                      owner_email |-> owner_email, title |-> title, payload |-> payload]
         IN  /\ IF proposal = None
                THEN /\ ret' = call @@ [status |-> "KeyError"]
                     /\ UNCHANGED storeVars
                ELSE LET versions == DictGet(versions_mem, proposal_id, <<>>)
                         next_version == next_version_of(versions)
                         version == version_row(proposal, proposal_id, title, payload, next_version)
                     IN  /\ TotalVersions < MaxVersions
                         /\ store_version(proposal_id, proposal_row(proposal, title, payload), version)
                         /\ UNCHANGED documents_mem
                         /\ ret' = call @@ [status |-> "ok", result |-> version]
             /\ UNCHANGED threads

add_document(proposal_id, owner_email, version) ==
    IF ~ProposalStoreService_is_configured
    THEN /\ raise_not_configured("add_document")
         /\ UNCHANGED <<storeVars, threads>>
    ELSE
         LET proposal == get_owned_proposal(proposal_id, owner_email)
             call == [op |-> "add_document", proposal_id |-> proposal_id,
                      owner_email |-> owner_email]
         IN  /\ IF proposal = None
                THEN /\ ret' = call @@ [status |-> "KeyError"]
                     /\ UNCHANGED storeVars
                ELSE LET docs == DictGet(documents_mem, proposal_id, <<>>)
                         row == [proposal_id |-> proposal_id,
                                 document_id |-> new_document_id(proposal_id),
                                 version |-> version]
                     IN  /\ TotalDocuments < MaxDocuments
                         /\ documents_mem' = DictSet(documents_mem, proposal_id,
                                                     DictSet(docs, row.document_id, row))
                         /\ UNCHANGED <<proposals_mem, versions_mem>>
                         /\ ret' = call @@ [status |-> "ok", result |-> row]
             /\ UNCHANGED threads

\* delete_document with the pop done before the ownership check
delete_document_unchecked(proposal_id, document_id, owner_email) ==
    LET proposal == get_owned_proposal(proposal_id, owner_email)
        docs == DictGet(documents_mem, proposal_id, <<>>)
        call == [op |-> "delete_document", proposal_id |-> proposal_id,
                 owner_email |-> owner_email, document_id |-> document_id]
    IN  /\ documents_mem' = IF proposal_id \in DOMAIN documents_mem
                            THEN DictSet(documents_mem, proposal_id, DictPop(docs, document_id))
                            ELSE documents_mem
        /\ UNCHANGED <<proposals_mem, versions_mem>>
        /\ ret' = call @@ [status |-> "ok",
                           result |-> proposal # None /\ document_id \in DOMAIN docs]
        /\ UNCHANGED threads

delete_document(proposal_id, document_id, owner_email) ==
    IF ~ProposalStoreService_is_configured
    THEN /\ raise_not_configured("delete_document")
         /\ UNCHANGED <<storeVars, threads>>
    ELSE
         LET proposal == get_owned_proposal(proposal_id, owner_email)
             call == [op |-> "delete_document", proposal_id |-> proposal_id,
                      owner_email |-> owner_email, document_id |-> document_id]
         IN  /\ IF proposal = None
                THEN /\ ret' = call @@ [status |-> "ok", result |-> FALSE]
                     /\ UNCHANGED storeVars
                ELSE LET docs == DictGet(documents_mem, proposal_id, <<>>)
                     IN  /\ documents_mem' = DictSet(documents_mem, proposal_id,
                                                     DictPop(docs, document_id))
                         /\ UNCHANGED <<proposals_mem, versions_mem>>
                         /\ ret' = call @@ [status |-> "ok",
                                            result |-> document_id \in DOMAIN docs]
             /\ UNCHANGED threads

\* the owner-scoped reads, called by any caller on any id
ReadProposalStore(proposal_id, owner_email) ==
    IF ~ProposalStoreService_is_configured
    THEN /\ raise_not_configured("read")
         /\ UNCHANGED <<storeVars, threads>>
    ELSE
         /\ ret' = [op |-> "read", proposal_id |-> proposal_id, owner_email |-> owner_email,
                    status |-> "ok",
                    owned_proposal |-> get_owned_proposal(proposal_id, owner_email),
                    versions |-> list_versions(proposal_id, owner_email),
                    got_version |-> [v \in 1..MaxVersions |->
                                       get_version(proposal_id, v, owner_email)],
                    documents |-> list_documents(proposal_id, owner_email, NoneInt),
                    got_document |-> [d \in DocumentIds |->
                                        get_document(proposal_id, d, owner_email)]]
         /\ UNCHANGED <<storeVars, threads>>

(***************************************************************************)
(* create_version called from several threads on one service.  The lock    *)
(* is taken three times: in get_owned_proposal (160-164), to read the      *)
(* next version number (226-228) and to store the rows (251-253).  Each    *)
(* locked section is one step.                                             *)
(***************************************************************************)

\* lines 208-211: look the proposal up; raise KeyError or keep a copy of it
cv_get(t, proposal_id, owner_email, title, payload) ==
    IF ~ProposalStoreService_is_configured
    THEN /\ raise_not_configured("create_version")
         /\ UNCHANGED <<storeVars, threads>>
    ELSE
         /\ threads[t].pc = "idle"
         /\ TotalVersions + Cardinality({u \in Threads : threads[u].pc # "idle"}) < MaxThreadVersions
         /\ LET proposal == get_owned_proposal(proposal_id, owner_email)
            IN  IF proposal = None
                THEN /\ ret' = [op |-> "create_version", proposal_id |-> proposal_id,
                                owner_email |-> owner_email, status |-> "KeyError"]
                     /\ UNCHANGED threads
                ELSE /\ threads' = [threads EXCEPT ![t] =
                           [pc |-> "next", proposal_id |-> proposal_id,
                            owner_email |-> owner_email, title |-> title,
                            payload |-> payload, proposal |-> proposal]]
                     /\ UNCHANGED ret
         /\ UNCHANGED storeVars

\* lines 226-228: next_version from the last stored row
cv_next(t) ==
    /\ threads[t].pc = "next"
    /\ threads' = [threads EXCEPT ![t] =
          [pc |-> "write", next_version |->
              next_version_of(DictGet(versions_mem, threads[t].proposal_id, <<>>))] @@ @]
    /\ UNCHANGED <<storeVars, ret>>

\* lines 230-254: build the rows and store them
cv_write(t) ==
    LET l == threads[t]
        version == version_row(l.proposal, l.proposal_id, l.title, l.payload, l.next_version)
    IN  /\ l.pc = "write"
        /\ store_version(l.proposal_id, proposal_row(l.proposal, l.title, l.payload), version)
        /\ UNCHANGED documents_mem
        /\ threads' = [threads EXCEPT ![t] = [pc |-> "idle"]]
        /\ ret' = [op |-> "create_version", proposal_id |-> l.proposal_id,
                   owner_email |-> l.owner_email, status |-> "ok", result |-> version]

(***************************************************************************)
(* The SAM.gov contract sync, main.py 547-752 and 1494-1516.               *)
(*                                                                         *)
(* Time is counted in ticks of TickMinutes minutes; a UTC day has          *)
(* TicksPerDay ticks.  A run holds one database session: it reads the      *)
(* committed rows, changes its own copies, and get_session() (db.py 27-37) *)
(* commits them when the with-block is left normally and rolls them back   *)
(* when an exception leaves it.  A step that completes no call leaves      *)
(* NoReturn in ret.                                                        *)
(***************************************************************************)
TicksPerDay == 2
TickMinutes == 1440 \div TicksPerDay
SAM_SYNC_MIN_INTERVAL_MINUTES == 1440
SAM_SYNC_MAX_REQUESTS_PER_DAY == 2
SAM_SYNC_PAGES == 2
\* no more than FetchCap calls a day are explored
FetchCap == SAM_SYNC_MAX_REQUESTS_PER_DAY + 1

Max(a, b) == IF a >= b THEN a ELSE b
Min(a, b) == IF a <= b THEN a ELSE b

\* now.strftime("%Y-%m-%d"): the UTC day of a tick
Day(t) == t \div TicksPerDay
Days == 0..Day(MaxClock + 1)

\* the poller thread and two requests to POST /contracts/sam/sync
Runners == {"poller", "request"}
Trigger(r) == IF r = "poller" THEN "scheduled" ELSE "manual"

\* normalize_sam_record (sam_contract_service.py 69-103) of a fetched record:
\* title stands for the source fields, raw_payload is the record itself
SamRecord(source_id, title) ==
    [source |-> "sam.gov", source_id |-> source_id, title |-> title,
     raw_payload |-> <<source_id, title>>]
\* the pages a fetch can return
SamPages ==
    { <<>>,
      <<SamRecord("n1", "A")>>,
      <<SamRecord("n1", NoneStr), SamRecord(NoneStr, "B"), SamRecord("n1", "B")>> }

\* _get_sync_state: the row, created with requests_today = 0 when missing
NewSyncState ==
    [last_run_at |-> NoneInt, last_status |-> NoneStr, last_error |-> NoneStr,
     requests_today |-> 0, requests_today_date |-> NoneInt, updated_at |-> NoneInt]

\* _reset_daily_budget
reset_daily_budget(state, now) ==
    IF state.requests_today_date # Day(now)
    THEN [state EXCEPT !.requests_today_date = Day(now), !.requests_today = 0]
    ELSE state

\* session.commit(): the UPDATE carries the attributes the session changed
CommitState(committed, loaded, local) ==
    [f \in DOMAIN committed |-> IF local[f] # loaded[f] THEN local[f] ELSE committed[f]]

\* SAM_SYNC_LOCK.acquire(blocking=False) that does not look at the holder
lock_acquire_unchecked(r) == TRUE

\* SAM_SYNC_LOCK.acquire(blocking=False) succeeds
lock_acquire(r) == SAM_SYNC_LOCK = NoneStr

\* a return that leaves SAM_SYNC_LOCK with the invocation that took it
lock_kept(r) == r

\* SAM_SYNC_LOCK.release() in the finally clause, lines 732-733
lock_release(r) == NoneStr

IdleRun == [pc |-> "idle"]

NoReturn == [op |-> "sync", runner |-> NoneStr, status |-> NoneStr, reason |-> NoneStr]

\* a contract_opportunities row (db_models.py 74-112) by the columns the
\* model follows: title for the source fields, award_notes for the
\* user-managed ones that no rule of the code touches; the id of a row is
\* its place in the table
ContractRow(source, source_id, title, status, raw_payload, now) ==
    [source |-> source, source_id |-> source_id, title |-> title, status |-> status,
     award_notes |-> NoneStr, report_submitted_at |-> NoneInt, decision_date |-> NoneInt,
     raw_payload |-> raw_payload, last_seen_at |-> now, updated_at |-> now]

\* lines 684-691: the rows the query for (source, source_id) finds
matching(table, source, source_id) ==
    {i \in 1..Len(table) : table[i].source = source /\ table[i].source_id = source_id}

\* uq_contract_source, db_models.py 76-78: the row would be the second of
\* its (source, source_id); a NULL source_id equals no other
violates_unique(table, row) ==
    row.source_id # NoneStr /\ matching(table, row.source, row.source_id) # {}

\* lines 585-588: val is None, or a string that strip() leaves empty
blank(val) == val = NoneStr \/ val \in {"", " "}

\* an update that also puts the row back to the status of a new one
update_contract_from_source_as_new(contract, payload, now) ==
    [contract EXCEPT
       !.title = IF blank(payload.title) THEN @ ELSE payload.title,
       !.status = "new",
       !.raw_payload = IF payload.raw_payload # <<>> THEN payload.raw_payload ELSE @,
       !.last_seen_at = now,
       !.updated_at = now]

\* _update_contract_from_source, lines 567-592
update_contract_from_source(contract, payload, now) ==
    [contract EXCEPT
       !.title = IF blank(payload.title) THEN @ ELSE payload.title,
       !.raw_payload = IF payload.raw_payload # <<>> THEN payload.raw_payload ELSE @,
       !.last_seen_at = now,
       !.updated_at = now]

\* a row loop that does not remember the source_ids it has seen
already_seen_never(source_id, seen) == FALSE

\* line 681: source_id in seen
already_seen(source_id, seen) == source_id \in seen

\* lines 676-700 for one page: rows without source_id or already seen are
\* skipped, a row whose (source, source_id) the table has is updated in the
\* session, the others are added to it
RECURSIVE process_rows(_, _, _)
process_rows(rows, run, now) ==
    IF rows = <<>> THEN run
    ELSE LET normalized == Head(rows)
             source_id == normalized.source_id
             found == matching(contracts, normalized.source, source_id)
         IN  IF Falsy(source_id) \/ already_seen(source_id, run.seen)
             THEN process_rows(Tail(rows), run, now)
             ELSE IF found # {}
             THEN LET id == CHOOSE i \in found : TRUE
                      existing == contracts[id]
                      row == update_contract_from_source(existing, normalized, now)
                  IN  process_rows(Tail(rows),
                        [run EXCEPT !.seen = @ \cup {source_id},
                                    !.updates = DictSet(@, id, [loaded |-> existing,
                                                                local |-> row]),
                                    !.updated = @ + 1], now)
             ELSE LET row == ContractRow(normalized.source, source_id, normalized.title,
                                         "new", normalized.raw_payload, now)
                  IN  process_rows(Tail(rows),
                        [run EXCEPT !.seen = @ \cup {source_id},
                                    !.inserts = Append(@, row),
                                    !.inserted = @ + 1], now)

\* the min-interval test applied to every trigger
too_soon_any_trigger(trigger, state, now) ==
    /\ state.last_run_at # NoneInt
    /\ (now - state.last_run_at) * TickMinutes * 60
         < Max(0, SAM_SYNC_MIN_INTERVAL_MINUTES) * 60

\* lines 616-618: a scheduled run with a last run less than the interval ago
too_soon(trigger, state, now) ==
    /\ trigger = "scheduled"
    /\ state.last_run_at # NoneInt
    /\ (now - state.last_run_at) * TickMinutes * 60
         < Max(0, SAM_SYNC_MIN_INTERVAL_MINUTES) * 60

\* lines 595-648: the configuration checks, the lock, the loaded state, the
\* min-interval and the daily-limit skips
sync_start(r) ==
    /\ runs[r].pc = "idle"
    /\ IF ~SAM_API_KEY
       THEN /\ SAM_SYNC_STATE' = [last_run |-> clock, last_error |-> "missing_api_key"]
            /\ ret' = [op |-> "sync", runner |-> r, status |-> "skipped",
                       reason |-> "missing_api_key"]
            /\ UNCHANGED <<SAM_SYNC_LOCK, runs>>
       ELSE IF SAM_SYNC_MAX_REQUESTS_PER_DAY <= 0
       THEN /\ SAM_SYNC_STATE' = [last_run |-> clock, last_error |-> "daily_limit_disabled"]
            /\ ret' = [op |-> "sync", runner |-> r, status |-> "skipped",
                       reason |-> "daily_limit_disabled"]
            /\ UNCHANGED <<SAM_SYNC_LOCK, runs>>
       ELSE IF ~lock_acquire(r)
       THEN /\ ret' = [op |-> "sync", runner |-> r, status |-> "busy", reason |-> NoneStr]
            /\ UNCHANGED <<SAM_SYNC_LOCK, SAM_SYNC_STATE, runs>>
       ELSE LET now == clock
                loaded == sync_state
                state == reset_daily_budget(loaded, now)
                remaining == Max(0, SAM_SYNC_MAX_REQUESTS_PER_DAY - state.requests_today)
                run == [pc |-> "fetch", now |-> now, loaded |-> loaded, state |-> state,
                        pages |-> Min(Max(1, SAM_SYNC_PAGES), remaining), page |-> 0,
                        request_count |-> 0, seen |-> {}, updates |-> <<>>, inserts |-> <<>>,
                        inserted |-> 0, updated |-> 0,
                        result |-> [status |-> NoneStr, reason |-> NoneStr]]
            IN  /\ SAM_SYNC_LOCK' = r
                /\ ret' = NoReturn
                /\ IF too_soon(Trigger(r), state, now)
                   THEN /\ runs' = [runs EXCEPT ![r] = [run EXCEPT
                              !.pc = "commit",
                              !.state = [state EXCEPT !.last_status = "skipped",
                                                      !.last_error = "min_interval",
                                                      !.updated_at = now],
                              !.result = [status |-> "skipped", reason |-> "min_interval"]]]
                        /\ SAM_SYNC_STATE' = [last_run |-> state.last_run_at,
                                              last_error |-> "min_interval"]
                   ELSE IF remaining <= 0
                   THEN /\ runs' = [runs EXCEPT ![r] = [run EXCEPT
                              !.pc = "commit",
                              !.state = [state EXCEPT !.last_status = "skipped",
                                                      !.last_error = "daily_limit_reached",
                                                      !.last_run_at = now,
                                                      !.updated_at = now],
                              !.result = [status |-> "skipped",
                                          reason |-> "daily_limit_reached"]]]
                        /\ SAM_SYNC_STATE' = [last_run |-> now,
                                              last_error |-> "daily_limit_reached"]
                   ELSE /\ runs' = [runs EXCEPT ![r] = run]
                        /\ UNCHANGED SAM_SYNC_STATE
    /\ UNCHANGED <<clock, SAM_API_KEY, sync_state, contracts, fetches>>

\* lines 649-715, one page of the loop: the request is counted, then
\* fetch_sam_opportunities either raises (660-675), or returns a page whose
\* processing raises something else (caught at 718), or returns a page that
\* is processed; after the last page the result is built (701-715)
sync_fetch(r, outcome, rows) ==
    LET run == runs[r]
        counted == [run EXCEPT !.request_count = @ + 1,
                               !.state.requests_today = @ + 1]
    IN  /\ run.pc = "fetch"
        /\ fetches[Day(clock)] < FetchCap
        /\ fetches' = [fetches EXCEPT ![Day(clock)] = @ + 1]
        /\ CASE outcome = "fetch_raises" ->
                  /\ runs' = [runs EXCEPT ![r] = [counted EXCEPT
                        !.pc = "commit",
                        !.state = [@ EXCEPT !.last_run_at = run.now,
                                            !.last_status = "error",
                                            !.last_error = "fetch_failed",
                                            !.updated_at = run.now],
                        !.result = [status |-> "error", reason |-> "fetch_failed"]]]
                  /\ SAM_SYNC_STATE' = [last_run |-> run.now, last_error |-> "fetch_failed"]
             [] outcome = "processing_raises" ->
                  /\ runs' = [runs EXCEPT ![r] = [counted EXCEPT !.pc = "rollback"]]
                  /\ UNCHANGED SAM_SYNC_STATE
             [] outcome = "ok" ->
                  LET done == process_rows(rows, counted, run.now)
                  IN  /\ IF run.page + 1 < run.pages
                         THEN runs' = [runs EXCEPT ![r] = [done EXCEPT !.page = @ + 1]]
                         ELSE runs' = [runs EXCEPT ![r] = [done EXCEPT
                                !.page = @ + 1,
                                !.pc = "commit",
                                !.state = [@ EXCEPT !.last_run_at = run.now,
                                                    !.last_status = "ok",
                                                    !.last_error = NoneStr,
                                                    !.updated_at = run.now],
                                !.result = [status |-> "ok", reason |-> NoneStr]]]
                      /\ UNCHANGED SAM_SYNC_STATE
        /\ ret' = NoReturn
        /\ UNCHANGED <<clock, SAM_API_KEY, SAM_SYNC_LOCK, sync_state, contracts>>

\* the INSERTs of the flush: one of them breaks uq_contract_source
RECURSIVE insert_conflict(_, _)
insert_conflict(table, inserts) ==
    IF inserts = <<>> THEN FALSE
    ELSE violates_unique(table, Head(inserts))
         \/ insert_conflict(Append(table, Head(inserts)), Tail(inserts))

\* the table after the flush of a session: each UPDATE carries the columns
\* the session changed, the INSERTs follow
committed_contracts(table, run) ==
    [id \in 1..Len(table) |->
       IF id \in DOMAIN run.updates
       THEN CommitState(table[id], run.updates[id].loaded, run.updates[id].local)
       ELSE table[id]] \o run.inserts

\* the with-block is left by return or by its end; a commit that the unique
\* constraint refuses leaves it by IntegrityError, to line 718: get_session commits, line
\* 716 records a successful run, finally releases the lock
sync_commit(r) ==
    LET run == runs[r]
    IN  /\ run.pc = "commit"
        /\ IF insert_conflict(contracts, run.inserts)
           THEN /\ runs' = [runs EXCEPT ![r] = [run EXCEPT !.pc = "rollback"]]
                /\ ret' = NoReturn
                /\ UNCHANGED <<sync_state, contracts, SAM_SYNC_STATE, SAM_SYNC_LOCK>>
           ELSE /\ sync_state' = CommitState(sync_state, run.loaded, run.state)
                /\ contracts' = committed_contracts(contracts, run)
                /\ IF run.result.status = "ok"
                   THEN SAM_SYNC_STATE' = [last_run |-> run.now, last_error |-> NoneStr]
                   ELSE UNCHANGED SAM_SYNC_STATE
                /\ SAM_SYNC_LOCK' = lock_release(r)
                /\ runs' = [runs EXCEPT ![r] = IdleRun]
                /\ ret' = [op |-> "sync", runner |-> r, status |-> run.result.status,
                           reason |-> run.result.reason]
        /\ UNCHANGED <<clock, SAM_API_KEY, fetches>>

\* lines 718-733: the exception left the with-block, so get_session rolled
\* the session back; a second session records the error, the lock is released
sync_rollback(r) ==
    LET run == runs[r]
        state == [sync_state EXCEPT !.last_run_at = run.now,
                                    !.last_status = "error",
                                    !.last_error = "exception",
                                    !.updated_at = run.now]
    IN  /\ run.pc = "rollback"
        /\ sync_state' = state
        /\ SAM_SYNC_STATE' = [last_run |-> run.now, last_error |-> "exception"]
        /\ SAM_SYNC_LOCK' = lock_release(r)
        /\ runs' = [runs EXCEPT ![r] = IdleRun]
        /\ ret' = [op |-> "sync", runner |-> r, status |-> "error", reason |-> "exception"]
        /\ UNCHANGED <<clock, SAM_API_KEY, contracts, fetches>>

\* GET /contracts/sam/status, lines 1499-1516
sam_sync_status ==
    LET state == reset_daily_budget(sync_state, clock)
    IN  /\ sync_state' = state
        /\ ret' = [op |-> "sam_sync_status", runner |-> NoneStr, status |-> "ok",
                   reason |-> NoneStr,
                   requests_today |-> state.requests_today,
                   remaining_quota |->
                      Max(0, SAM_SYNC_MAX_REQUESTS_PER_DAY - state.requests_today)]
        /\ UNCHANGED <<clock, SAM_API_KEY, SAM_SYNC_LOCK, SAM_SYNC_STATE, contracts,
                       runs, fetches>>

\* time passes
Tick ==
    /\ clock < MaxClock
    /\ clock' = clock + 1
    /\ ret' = NoReturn
    /\ UNCHANGED <<SAM_API_KEY, SAM_SYNC_LOCK, SAM_SYNC_STATE, sync_state, contracts,
                   runs, fetches>>

(***************************************************************************)
(* ReportJobService in memory mode, report_job_service.py 44-159: no table *)
(* is held and the jobs live in _memory.  A job is a dict; save_job drops  *)
(* the keys whose value is None.  _now_iso() is the clock, and a call that *)
(* reads it takes one tick.                                                *)
(***************************************************************************)
JobIds == {"job_1", "job_2", "job_3"}
EmptyDict == "{}"
\* the keys of a job that hold a time
JobTimeKeys == {"created_at", "started_at", "finished_at", "updated_at"}

\* create_job's arguments: owner_email, job_kind, request_payload
JobRequests == {<<"a@example.com", "report", "rq1">>, <<"b@example.com", "subtasks", "rq2">>}
\* update_status's arguments: status, error, result_payload
StatusUpdates ==
    { <<"running", NoneStr, NoneStr>>,
      <<"completed", NoneStr, "r1">>,
      <<"completed", NoneStr, EmptyDict>>,
      <<"failed", "e1", NoneStr>> }

\* new_job_id: a token no stored job has
new_job_id ==
    LET unused == {id \in JobIds : id \notin DOMAIN jobs_memory}
    IN  IF unused = {} THEN {}
        ELSE {CHOOSE id \in unused : TRUE}

\* v is None, for the value v of key k
IsNoneAt(k, v) == IF k \in JobTimeKeys THEN v = NoneInt ELSE v = NoneStr

\* save_job, lines 125 and 133: the item without its None values
clean_item(item) == [k \in {x \in DOMAIN item : ~IsNoneAt(x, item[x])} |-> item[k]]

\* get_job on a given _memory
get_job_in(memory, job_id) ==
    IF ~ReportJobService_is_configured \/ Falsy(job_id) THEN None
    ELSE IF job_id \in DOMAIN memory THEN memory[job_id] ELSE None

\* get_job
get_job(job_id) == get_job_in(jobs_memory, job_id)

\* create_job
create_job(owner_email, job_kind, request_payload, job_id) ==
    IF ~ReportJobService_is_configured
    THEN /\ raise_not_configured("create_job")
         /\ UNCHANGED <<jobs_memory, clock>>
    ELSE
         \E fresh \in (IF Falsy(job_id) THEN new_job_id ELSE {job_id}) :
           LET now == clock
               item == [job_id |-> fresh, owner_email |-> owner_email, job_kind |-> job_kind,
                        status |-> "queued", request_payload |-> request_payload,
                        result_payload |-> EmptyDict, error |-> NoneStr, created_at |-> now,
                        started_at |-> NoneInt, finished_at |-> NoneInt, updated_at |-> now]
           IN  /\ clock < MaxJobClock
               /\ clock' = clock + 1
               /\ Cardinality(DOMAIN jobs_memory \cup {fresh}) <= MaxJobs
               /\ jobs_memory' = DictSet(jobs_memory, fresh, clean_item(item))
               /\ ret' = [op |-> "create_job", job_id |-> fresh, owner_email |-> owner_email,
                          job_kind |-> job_kind, request_payload |-> request_payload,
                          status |-> "ok", result |-> item]

\* lines 148-157 without the result_payload assignment
updated_job_without_payload(job, now, status, error, result_payload) ==
    LET j1 == DictSet(DictSet(job, "status", status), "updated_at", now)
        j2 == IF status = "running" /\ DictGet(j1, "started_at", NoneInt) = NoneInt
              THEN DictSet(j1, "started_at", now) ELSE j1
        j3 == IF status \in {"completed", "failed"}
              THEN DictSet(j2, "finished_at", now) ELSE j2
        j4 == IF error # NoneStr THEN DictSet(j3, "error", error) ELSE j3
    IN  j4

\* lines 148-157 with started_at set on every move to "running"
updated_job_restarted(job, now, status, error, result_payload) ==
    LET j1 == DictSet(DictSet(job, "status", status), "updated_at", now)
        j2 == IF status = "running" THEN DictSet(j1, "started_at", now) ELSE j1
        j3 == IF status \in {"completed", "failed"}
              THEN DictSet(j2, "finished_at", now) ELSE j2
        j4 == IF error # NoneStr THEN DictSet(j3, "error", error) ELSE j3
        j5 == IF result_payload # NoneStr
              THEN DictSet(j4, "result_payload", result_payload) ELSE j4
    IN  j5

\* lines 148-157: the job with the new status, times, error and result
updated_job(job, now, status, error, result_payload) ==
    LET j1 == DictSet(DictSet(job, "status", status), "updated_at", now)
        j2 == IF status = "running" /\ DictGet(j1, "started_at", NoneInt) = NoneInt
              THEN DictSet(j1, "started_at", now) ELSE j1
        j3 == IF status \in {"completed", "failed"}
              THEN DictSet(j2, "finished_at", now) ELSE j2
        j4 == IF error # NoneStr THEN DictSet(j3, "error", error) ELSE j3
        j5 == IF result_payload # NoneStr
              THEN DictSet(j4, "result_payload", result_payload) ELSE j4
    IN  j5

\* update_status
update_status(job_id, status, error, result_payload) ==
    LET job == get_job(job_id)
        call == [op |-> "update_status", job_id |-> job_id, new_status |-> status,
                 error |-> error, result_payload |-> result_payload, status |-> "ok"]
    IN  /\ clock < MaxJobClock
        /\ clock' = clock + 1
        /\ IF job = None
           THEN /\ ret' = call @@ [result |-> None]
                /\ UNCHANGED jobs_memory
           ELSE LET new == updated_job(job, clock, status, error, result_payload)
                IN  /\ jobs_memory' = DictSet(jobs_memory, new["job_id"], clean_item(new))
                    /\ ret' = call @@ [result |-> new]

\* the items save_job is called with directly
SavedJobs ==
    { [job_id |-> "job_1", owner_email |-> "a@example.com", status |-> "queued",
       error |-> NoneStr, updated_at |-> 0] }

\* save_job
save_job(item) ==
    IF ~ReportJobService_is_configured
    THEN /\ raise_not_configured("save_job")
         /\ UNCHANGED <<jobs_memory, clock>>
    ELSE LET clean == clean_item(item)
         IN  /\ Cardinality(DOMAIN jobs_memory \cup {clean["job_id"]}) <= MaxJobs
             /\ jobs_memory' = DictSet(jobs_memory, clean["job_id"], clean)
             /\ ret' = [op |-> "save_job", item |-> item, status |-> "ok", result |-> clean]
             /\ UNCHANGED clock

\* get_job as a call of its own
ReadJob(job_id) ==
    /\ ret' = [op |-> "get_job", job_id |-> job_id, status |-> "ok",
               result |-> get_job(job_id)]
    /\ UNCHANGED <<jobs_memory, clock>>

(***************************************************************************)
(* update_status called by two threads: get_job and save_job each take     *)
(* the lock for themselves (lines 117-119, 132-133), the lines between     *)
(* them work on the caller's copy of the job.                              *)
(***************************************************************************)

\* lines 144-157: get_job, None for an unknown job, else the changed copy
us_get(t, job_id, status, error, result_payload) ==
    LET job == get_job(job_id)
        call == [op |-> "update_status", job_id |-> job_id, new_status |-> status,
                 error |-> error, result_payload |-> result_payload]
    IN  /\ threads[t].pc = "idle"
        /\ clock < MaxJobClock
        /\ clock' = clock + 1
        /\ IF job = None
           THEN /\ ret' = call @@ [thread |-> t, status |-> "ok", result |-> None]
                /\ UNCHANGED threads
           ELSE /\ threads' = [threads EXCEPT ![t] =
                      [pc |-> "save", call |-> call,
                       job |-> updated_job(job, clock, status, error, result_payload)]]
                /\ ret' = [op |-> "update_status_get", thread |-> t, status |-> "ok"]
        /\ UNCHANGED jobs_memory

\* lines 158-159: save_job stores the copy
us_save(t) ==
    LET l == threads[t]
    IN  /\ l.pc = "save"
        /\ jobs_memory' = DictSet(jobs_memory, l.job["job_id"], clean_item(l.job))
        /\ threads' = [threads EXCEPT ![t] = [pc |-> "idle"]]
        /\ ret' = l.call @@ [thread |-> t, status |-> "ok", result |-> l.job]
        /\ UNCHANGED clock

(***************************************************************************)
(* ContractStoreService in memory mode, contract_store_service.py 68-219:  *)
(* no table is held.  A row is a                                           *)
(* dict.  A datetime value is None, a blank string, an ISO string with a   *)
(* UTC offset ("aware") or one without ("naive"); a status is a string,    *)
(* kept as its sequence of characters; tags are a list or None.  A call    *)
(* takes one tick.                                                         *)
(***************************************************************************)
ContractIds == {"con_1", "con_2", "con_3"}
DatetimeKeys == {"posted_at", "due_at", "report_submitted_at", "decision_date",
                 "last_seen_at", "created_at", "updated_at"}

Dt(form, t, off) == [form |-> form, t |-> t, off |-> off]
DtNone == Dt("none", 0, 0)
DtBlank == Dt("blank", 0, 0)
Aware(t, off) == Dt("aware", t, off)
Naive(t) == Dt("naive", t, 0)
TagsNone == <<NoneStr>>

\* _now_iso: datetime.now(timezone.utc).isoformat() carries "+00:00"
now_iso == Aware(clock, 0)

\* _normalize_datetime_value, lines 48-65
normalize_datetime_value(value) ==
    CASE value.form = "none" -> DtNone
      [] value.form = "blank" -> DtNone
      [] value.form = "aware" -> Naive(value.t - value.off)
      [] OTHER -> value

\* str.lower on the characters used
Lower(c) ==
    CASE c = "N" -> "n" [] c = "B" -> "b" [] c = "W" -> "w" [] c = "E" -> "e"
      [] c = "A" -> "a" [] c = "R" -> "r" [] OTHER -> c

\* str.strip
RECURSIVE LStrip(_)
LStrip(s) == IF s # <<>> /\ Head(s) = " " THEN LStrip(Tail(s)) ELSE s
RECURSIVE RStrip(_)
RStrip(s) == IF s # <<>> /\ s[Len(s)] = " " THEN RStrip(SubSeq(s, 1, Len(s) - 1)) ELSE s
Strip(s) == RStrip(LStrip(s))

\* line 127: strip().lower().replace("-", "_").replace(" ", "_")
normalize_status(s) ==
    LET t == Strip(s)
    IN  [i \in 1..Len(t) |->
           LET c == Lower(t[i]) IN IF c = "-" \/ c = " " THEN "_" ELSE c]

\* _normalize_contract_row on one key, lines 114-128
normalize_field(k, v) ==
    IF k \in DatetimeKeys THEN normalize_datetime_value(v)
    ELSE IF k = "tags" /\ v = TagsNone THEN <<>>
    ELSE IF k = "status" THEN normalize_status(v)
    ELSE v

\* _normalize_contract_row
normalize_contract_row(row) == [k \in DOMAIN row |-> normalize_field(k, row[k])]

\* dict.update
DictUpdate(d, patch) ==
    [k \in DOMAIN d \cup DOMAIN patch |-> IF k \in DOMAIN patch THEN patch[k] ELSE d[k]]

\* row.get(k) or default
GetOr(row, k, falsy, default) ==
    IF k \in DOMAIN row /\ row[k] \notin falsy THEN row[k] ELSE default

StatusNew == <<"n", "e", "w">>
StatusWon == <<"w", "o", "n">>
StatusNoBidRaw == <<" ", "N", "o", "-", "B", "i", "d", " ">>

\* the payloads given to create_contract
ContractPayloads ==
    { [title |-> "T1", status |-> StatusNew],
      [title |-> "T1", contract_id |-> "con_1", status |-> StatusNoBidRaw,
       due_at |-> Aware(2, 1)],
      [title |-> "T2", contract_id |-> "", tags |-> TagsNone, created_at |-> DtBlank,
       status |-> <<>>] }

\* the patches given to update_contract
ContractPatches ==
    { [status |-> StatusWon],
      [status |-> StatusNoBidRaw],
      [title |-> "T2", contract_id |-> "con_3"],
      [tags |-> TagsNone, due_at |-> Aware(2, 1)],
      [updated_at |-> Naive(0), created_at |-> DtNone],
      <<>> }

\* new_contract_id: a token no stored contract has
new_contract_id ==
    LET unused == {id \in ContractIds : id \notin DOMAIN contracts_mem}
    IN  IF unused = {} THEN {} ELSE {CHOOSE id \in unused : TRUE}

\* get_contract on a given _contracts_mem
get_contract_in(mem, contract_id) ==
    IF contract_id \in DOMAIN mem THEN mem[contract_id] ELSE None

\* get_contract
get_contract(contract_id) == get_contract_in(contracts_mem, contract_id)

\* create_contract
create_contract(payload) ==
    IF ~ContractStoreService_is_configured
    THEN /\ raise_not_configured("create_contract")
         /\ UNCHANGED <<contracts_mem, clock>>
    ELSE
         \E fresh \in (IF GetOr(payload, "contract_id", {""}, "") = "" THEN new_contract_id
                       ELSE {payload["contract_id"]}) :
           LET now == now_iso
               row0 == normalize_contract_row(payload)
               row == DictUpdate(row0,
                        [contract_id |-> fresh,
                         created_at |-> GetOr(row0, "created_at", {DtNone}, now),
                         updated_at |-> GetOr(row0, "updated_at", {DtNone}, now),
                         status |-> GetOr(row0, "status", {<<>>}, StatusNew),
                         tags |-> GetOr(row0, "tags", {<<>>}, <<>>)])
           IN  /\ clock < MaxContractClock
               /\ clock' = clock + 1
               /\ Cardinality(DOMAIN contracts_mem \cup {fresh}) <= MaxContracts
               /\ contracts_mem' = DictSet(contracts_mem, fresh, row)
               /\ ret' = [op |-> "create_contract", payload |-> payload, status |-> "ok",
                          result |-> row]

\* save_contract, lines 193-208: the row it stores and returns
save_contract_row(contract, fresh) ==
    LET row0 == normalize_contract_row(contract)
        row1 == DictUpdate(row0, [contract_id |-> GetOr(row0, "contract_id", {""}, fresh)])
        row2 == DictUpdate(row1,
                  [updated_at |-> GetOr(row1, "updated_at", {DtNone}, now_iso)])
    IN  IF GetOr(row2, "created_at", {DtNone}, DtNone) = DtNone
        THEN DictUpdate(row2, [created_at |-> row2["updated_at"]])
        ELSE row2

\* lines 215-217 that let the patch set contract_id
merged_contract_unpinned(current, contract_id, patch) ==
    DictUpdate(DictUpdate(current, patch), [updated_at |-> now_iso])

\* lines 215-218: the previous row, the patch over it, the id and the time
merged_contract(current, contract_id, patch) ==
    DictUpdate(DictUpdate(current, patch),
               [contract_id |-> contract_id, updated_at |-> now_iso])

\* update_contract
update_contract(contract_id, patch) ==
    IF ~ContractStoreService_is_configured
    THEN /\ raise_not_configured("update_contract")
         /\ UNCHANGED <<contracts_mem, clock>>
    ELSE
         LET current == get_contract(contract_id)
             call == [op |-> "update_contract", contract_id |-> contract_id, patch |-> patch,
                      status |-> "ok"]
         IN  /\ clock < MaxContractClock
             /\ clock' = clock + 1
             /\ IF current = None
                THEN /\ ret' = call @@ [result |-> None]
                     /\ UNCHANGED contracts_mem
                ELSE LET row == save_contract_row(merged_contract(current, contract_id, patch),
                                                  contract_id)
                     IN  /\ contracts_mem' = DictSet(contracts_mem, row["contract_id"], row)
                         /\ ret' = call @@ [result |-> row]

\* the rows save_contract is called with directly
SavedContracts ==
    { [contract_id |-> "con_1", title |-> "T1", status |-> StatusWon,
       created_at |-> Naive(0)] }

\* save_contract
save_contract(contract) ==
    IF ~ContractStoreService_is_configured
    THEN /\ raise_not_configured("save_contract")
         /\ UNCHANGED <<contracts_mem, clock>>
    ELSE \E fresh \in (IF GetOr(contract, "contract_id", {""}, "") = "" THEN new_contract_id
                       ELSE {contract["contract_id"]}) :
           LET row == save_contract_row(contract, fresh)
           IN  /\ clock < MaxContractClock
               /\ clock' = clock + 1
               /\ Cardinality(DOMAIN contracts_mem \cup {row["contract_id"]}) <= MaxContracts
               /\ contracts_mem' = DictSet(contracts_mem, row["contract_id"], row)
               /\ ret' = [op |-> "save_contract", contract |-> contract, status |-> "ok",
                          result |-> row]

(***************************************************************************)
(* The sync state of ContractStoreService in memory mode,                  *)
(* contract_store_service.py 131-159: _sync_mem maps str(source) to the    *)
(* saved dict.  The times are the strings of _now_iso, None or "".         *)
(***************************************************************************)
VARIABLES
    sync_mem         \* ContractStoreService._sync_mem: source -> state

Sources == {"sam.gov", "manual", "usaspending"}

\* the states given to save_sync_state
SyncStates ==
    { [source |-> "sam.gov", requests_today |-> 1],
      [source |-> "sam.gov", requests_today |-> 2, last_status |-> "ok",
       updated_at |-> DtNone],
      [source |-> "manual", requests_today |-> 0, created_at |-> Aware(0, 0),
       updated_at |-> DtBlank],
      [source |-> "manual", requests_today |-> 3, created_at |-> DtNone,
       updated_at |-> Aware(1, 0)] }

\* get_sync_state on a given _sync_mem
get_sync_state_in(mem, source) ==
    IF source \in DOMAIN mem /\ DOMAIN mem[source] # {} THEN mem[source] ELSE None

\* lines 146-150 with created_at always set to now
sync_item_restamped(state, now) ==
    DictUpdate(state, [updated_at |-> GetOr(state, "updated_at", {DtNone, DtBlank}, now),
                       created_at |-> now])

\* lines 146-150: the dict that is stored and returned
sync_item(state, now) ==
    DictUpdate(state, [updated_at |-> GetOr(state, "updated_at", {DtNone, DtBlank}, now),
                       created_at |-> GetOr(state, "created_at", {DtNone, DtBlank}, now)])

\* get_sync_state
get_sync_state(source) ==
    IF ~ContractStoreService_is_configured
    THEN /\ raise_not_configured("get_sync_state")
         /\ UNCHANGED <<sync_mem, clock>>
    ELSE /\ ret' = [op |-> "get_sync_state", source |-> source, status |-> "ok",
                    result |-> get_sync_state_in(sync_mem, source)]
         /\ UNCHANGED <<sync_mem, clock>>

\* save_sync_state
save_sync_state(state) ==
    IF ~ContractStoreService_is_configured
    THEN /\ raise_not_configured("save_sync_state")
         /\ UNCHANGED <<sync_mem, clock>>
    ELSE LET item == sync_item(state, now_iso)
         IN  /\ clock < MaxContractClock
             /\ clock' = clock + 1
             /\ sync_mem' = DictSet(sync_mem, item["source"], item)
             /\ ret' = [op |-> "save_sync_state", state |-> state, status |-> "ok",
                        result |-> item]

(***************************************************************************)
(* CalculationService, calculation_service.py 10-135 and 368-485, with the *)
(* catalog of data_service.py and the rules of models.py.  The floats of   *)
(* the code are exact rationals <<numerator, denominator>> here, so that   *)
(* an equation between amounts is one of the business rule and not of      *)
(* rounding.  An input is the record of its attributes: what the           *)
(* EstimationInput dataclass (models.py 77-106) declares.                  *)
(***************************************************************************)
Abs(n) == IF n < 0 THEN -n ELSE n

RECURSIVE GCD(_, _)
GCD(a, b) == IF b = 0 THEN a ELSE GCD(b, a % b)

Rat(n, d) == LET g == GCD(Abs(n), d) IN <<n \div g, d \div g>>
Whole(n) == <<n, 1>>
Zero == Whole(0)
One == Whole(1)
Add(x, y) ==
    LET g == GCD(x[2], y[2])
    IN  Rat(x[1] * (y[2] \div g) + y[1] * (x[2] \div g), (x[2] \div g) * y[2])
Neg(x) == <<-x[1], x[2]>>
Sub(x, y) == Add(x, Neg(y))
Mul(x, y) ==
    LET g1 == GCD(Abs(x[1]), y[2])
        g2 == GCD(Abs(y[1]), x[2])
    IN  Rat((x[1] \div g1) * (y[1] \div g2), (x[2] \div g2) * (y[2] \div g1))
Inv(x) == IF x[1] < 0 THEN <<-x[2], -x[1]>> ELSE <<x[2], x[1]>>
Div(x, y) == Mul(x, Inv(y))
Positive(x) == x[1] > 0

RECURSIVE SumSeq(_)
SumSeq(s) == IF s = <<>> THEN Zero ELSE Add(Head(s), SumSeq(Tail(s)))

\* round(x, 1) for x >= 0: the nearest tenth, a tie going to the even one
Round1(x) ==
    LET n == x[1] * 10
        q == n \div x[2]
        r == n % x[2]
        up == 2 * r > x[2] \/ (2 * r = x[2] /\ q % 2 = 1)
    IN  Rat(IF up THEN q + 1 ELSE q, 10)

\* data_service.py 14-65: the roles in the order of the dict, and their rates
RoleOrder ==
    <<"solution_architect", "technical_lead", "senior_engineer", "engineer",
      "junior_engineer", "project_manager", "business_analyst", "security_specialist",
      "data_engineer", "cloud_architect">>
base_hourly_rate ==
    [solution_architect |-> 175, technical_lead |-> 150, senior_engineer |-> 135,
     engineer |-> 110, junior_engineer |-> 85, project_manager |-> 140,
     business_analyst |-> 125, security_specialist |-> 160, data_engineer |-> 145,
     cloud_architect |-> 165]

\* models.py 23-34: Role.clearance_multiplier and Role.geography_multiplier
clearance_multiplier ==
    [none |-> One, public_trust |-> Rat(11, 10), secret |-> Rat(13, 10),
     top_secret |-> Rat(16, 10)]
geography_multiplier ==
    [dc_metro |-> Rat(12, 10), major_city |-> Rat(11, 10), standard |-> One,
     rural |-> Rat(9, 10)]

\* data_service.py 71-223: base_hours_by_role of the modules the inputs select
base_hours_by_role ==
    [dt_discovery |-> [solution_architect |-> 40, business_analyst |-> 80,
                       senior_engineer |-> 60, project_manager |-> 30],
     dt_strategy |-> [solution_architect |-> 60, business_analyst |-> 100,
                      project_manager |-> 40],
     sa_license_audit |-> [business_analyst |-> 60, senior_engineer |-> 40,
                           project_manager |-> 20]]

\* DataService.get_module: the module, or None for an id not in the catalog
get_module(module_id) ==
    IF module_id \in DOMAIN base_hours_by_role
    THEN [id |-> module_id, base_hours_by_role |-> base_hours_by_role[module_id]]
    ELSE None

\* models.py 45-66: ComplexityMatrix
base_multiplier == [S |-> Rat(7, 10), M |-> One, L |-> Rat(16, 10), XL |-> Rat(23, 10)]
environment_factor ==
    [development |-> One, staging |-> Rat(12, 10), production |-> Rat(15, 10),
     classified |-> Whole(2)]
integration_complexity ==
    [standalone |-> One, light_integration |-> Rat(12, 10),
     moderate_integration |-> Rat(15, 10), heavy_integration |-> Whole(2)]

\* models.py 68-75: EstimationRules
risk_reserve_percentage == Rat(15, 100)
overhead_multiplier == Rat(12, 10)
prime_contractor_margin == Rat(15, 100)

\* _get_complexity_multiplier, lines 475-485
get_complexity_multiplier(input_data) ==
    LET sites == Max(1, input_data.sites)
        sites_multiplier == Add(One, Mul(Rat(15, 100), Whole(sites - 1)))
    IN  Mul(Mul(base_multiplier[input_data.complexity],
                DictGet(environment_factor, input_data.environment, One)),
            Mul(DictGet(integration_complexity, input_data.integration_level, One),
                sites_multiplier))

\* _calculate_role_hours, lines 426-443, over modules none of which is None
RECURSIVE calculate_role_hours(_, _, _)
calculate_role_hours(role_id, modules, input_data) ==
    IF modules = <<>> THEN Zero
    ELSE LET base_hours == DictGet(Head(modules).base_hours_by_role, role_id, 0)
             rest == calculate_role_hours(role_id, Tail(modules), input_data)
         IN  IF base_hours > 0
             THEN Add(Mul(Mul(Whole(base_hours), get_complexity_multiplier(input_data)),
                          DictGet(input_data.custom_role_overrides, role_id, One)),
                      rest)
             ELSE rest

\* _calculate_module_hours, lines 445-455
calculate_module_hours(module, input_data) ==
    LET roles == DOMAIN module.base_hours_by_role
        hours(role_id) ==
            Mul(Mul(Whole(module.base_hours_by_role[role_id]),
                    get_complexity_multiplier(input_data)),
                DictGet(input_data.custom_role_overrides, role_id, One))
    IN  SumSeq([i \in 1..Len(RoleOrder) |->
                  IF RoleOrder[i] \in roles THEN hours(RoleOrder[i]) ELSE Zero])

\* _calculate_effective_rate, lines 457-473
calculate_effective_rate(role_id, input_data) ==
    Mul(Mul(Whole(base_hourly_rate[role_id]),
            DictGet(geography_multiplier, input_data.geography, One)),
        Mul(DictGet(clearance_multiplier, input_data.clearance_level, One),
            IF input_data.overtime THEN Rat(12, 10) ELSE One))

\* lines 24-43: role_breakdown, the roles with positive hours
role_breakdown_of(modules, input_data) ==
    LET hours(r) == calculate_role_hours(r, modules, input_data)
        used == {r \in DOMAIN base_hourly_rate : Positive(hours(r))}
    IN  [r \in used |->
           [hours |-> hours(r),
            effective_rate |-> calculate_effective_rate(r, input_data),
            cost |-> Mul(hours(r), calculate_effective_rate(r, input_data))]]

\* the sum of a field over role_breakdown, in the order of the roles
SumOver(breakdown, key) ==
    SumSeq([i \in 1..Len(RoleOrder) |->
              IF RoleOrder[i] \in DOMAIN breakdown THEN breakdown[RoleOrder[i]][key]
              ELSE Zero])

\* _compute_historical_adjustment, lines 368-424: None, or the multipliers.
\* A historical estimate is [selected, hours, effective_rate, total_cost],
\* with 0 for a value that is missing.
compute_historical_adjustment(input_data, base_total_hours, base_effective_rate) ==
    LET selected == SelectSeq(input_data.historical_estimates, LAMBDA h : h.selected)
        counted == SelectSeq(selected, LAMBDA h : h.hours > 0)
        rated == SelectSeq(counted, LAMBDA h : h.effective_rate > 0 \/ h.total_cost > 0)
        hour_values == [i \in 1..Len(counted) |-> Whole(counted[i].hours)]
        rate_values == [i \in 1..Len(rated) |->
                          IF rated[i].effective_rate > 0 THEN Whole(rated[i].effective_rate)
                          ELSE Rat(rated[i].total_cost, rated[i].hours)]
    IN  IF input_data.estimating_method # "historical" THEN None
        ELSE IF selected = <<>> THEN None
        ELSE IF hour_values = <<>> \/ ~Positive(base_total_hours) THEN None
        ELSE [is_none |-> FALSE,
              hours_multiplier |->
                 Div(Div(SumSeq(hour_values), Whole(Len(hour_values))), base_total_hours),
              rate_multiplier |->
                 IF rate_values # <<>> /\ Positive(base_effective_rate)
                 THEN Div(Div(SumSeq(rate_values), Whole(Len(rate_values))),
                          base_effective_rate)
                 ELSE One]

\* lines 52-60: the breakdown scaled by the historical multipliers
scaled_breakdown(breakdown, adjustment) ==
    [r \in DOMAIN breakdown |->
       LET scaled_hours == Round1(Mul(breakdown[r].hours, adjustment.hours_multiplier))
           scaled_rate == Mul(breakdown[r].effective_rate, adjustment.rate_multiplier)
       IN  [hours |-> scaled_hours, effective_rate |-> scaled_rate,
            cost |-> Mul(scaled_hours, scaled_rate)]]

\* lines 63-77: module_breakdown, keyed by module id
module_breakdown_of(modules, breakdown, hours_multiplier, input_data) ==
    LET ids == {modules[i].id : i \in 1..Len(modules)}
    IN  [id \in ids |->
           LET module == get_module(id)
           IN  [hours |-> Mul(calculate_module_hours(module, input_data), hours_multiplier),
                cost |-> SumOver([r \in DOMAIN breakdown \cap DOMAIN module.base_hours_by_role
                                    |-> breakdown[r]], "cost")]]

\* lines 79-96: the subtotal before the reserve
subtotal_without_risk(total_labor_cost, input_data) ==
    LET overhead_cost == Mul(total_labor_cost, Sub(overhead_multiplier, One))
        odc_total == SumSeq([i \in 1..Len(input_data.odc_items) |->
                               Whole(input_data.odc_items[i])])
        fixed_price_total == SumSeq([i \in 1..Len(input_data.fixed_price_items) |->
                                       Whole(input_data.fixed_price_items[i])])
    IN  Add(Add(Add(total_labor_cost, overhead_cost), Add(odc_total, fixed_price_total)),
            Add(Whole(input_data.hardware_subtotal), Whole(input_data.warranty_cost)))

\* lines 97-105: the management reserve
risk_reserve_of(subtotal, input_data) ==
    LET target_mr_pct == risk_reserve_percentage
        margin_rate == IF input_data.is_prime_contractor THEN prime_contractor_margin
                       ELSE Zero
        denom == Sub(One, Mul(target_mr_pct, Add(One, margin_rate)))
    IN  IF ~Positive(target_mr_pct) THEN Zero
        ELSE IF Positive(margin_rate)
        THEN IF Positive(denom)
             THEN Div(Mul(Mul(target_mr_pct, Add(One, margin_rate)), subtotal), denom)
             ELSE Zero
        ELSE Div(Mul(target_mr_pct, subtotal), Sub(One, target_mr_pct))

\* lines 107-112: the total
total_cost_of(subtotal_with_reserve, input_data) ==
    IF input_data.is_prime_contractor
    THEN Add(subtotal_with_reserve, Mul(subtotal_with_reserve, prime_contractor_margin))
    ELSE subtotal_with_reserve

\* lines 44-135, once _compute_historical_adjustment has found its attributes
estimation_result(modules, base_breakdown, input_data) ==
    LET base_hours == SumOver(base_breakdown, "hours")
        base_cost == SumOver(base_breakdown, "cost")
        base_effective_rate == IF Positive(base_hours) THEN Div(base_cost, base_hours)
                               ELSE Zero
        adjustment == compute_historical_adjustment(input_data, base_hours,
                                                    base_effective_rate)
        breakdown == IF adjustment = None THEN base_breakdown
                     ELSE scaled_breakdown(base_breakdown, adjustment)
        hours_multiplier == IF adjustment = None THEN One ELSE adjustment.hours_multiplier
        total_labor_hours == SumOver(breakdown, "hours")
        total_labor_cost == SumOver(breakdown, "cost")
        subtotal == subtotal_without_risk(total_labor_cost, input_data)
        risk_reserve == risk_reserve_of(subtotal, input_data)
        total_cost == total_cost_of(Add(subtotal, risk_reserve), input_data)
    IN  [total_labor_hours |-> total_labor_hours,
         total_labor_cost |-> total_labor_cost,
         risk_reserve |-> risk_reserve,
         overhead_cost |-> Mul(total_labor_cost, Sub(overhead_multiplier, One)),
         total_cost |-> total_cost,
         breakdown_by_module |->
            module_breakdown_of(modules, breakdown, hours_multiplier, input_data),
         breakdown_by_role |-> breakdown,
         effective_hourly_rate |-> IF Positive(total_labor_hours)
                                   THEN Div(total_cost, total_labor_hours) ELSE Zero]

\* calculate_estimate: a module id that is not in the catalog gives None,
\* whose base_hours_by_role line 431 reads; _compute_historical_adjustment
\* reads input_data.estimating_method at line 374
calculate_estimate(input_data) ==
    LET modules == [i \in 1..Len(input_data.modules) |-> get_module(input_data.modules[i])]
        call == [op |-> "calculate_estimate", input |-> input_data]
    IN  IF \E i \in 1..Len(modules) : modules[i] = None
        THEN ret' = call @@ [status |-> "AttributeError", attribute |-> "base_hours_by_role"]
        ELSE IF "estimating_method" \notin DOMAIN input_data
        THEN ret' = call @@ [status |-> "AttributeError", attribute |-> "estimating_method"]
        ELSE ret' = call @@ [status |-> "ok", attribute |-> NoneStr,
                             result |-> estimation_result(modules,
                                           role_breakdown_of(modules, input_data),
                                           input_data)]

\* data_service.py 71-163: name and prerequisites of the same modules
module_name ==
    [dt_discovery |-> "Discovery & Current State Mapping",
     dt_strategy |-> "Digital Strategy Development",
     sa_license_audit |-> "License Audit & Rightsizing"]
prerequisites ==
    [dt_discovery |-> <<>>, dt_strategy |-> <<"dt_discovery">>, sa_license_audit |-> <<>>]

\* the f-string of line 494, by its parts
not_found(module_id) == <<"Module ", module_id, " not found">>

\* lines 492-494: a warning for each id that is not in the catalog
RECURSIVE missing_warnings(_)
missing_warnings(module_ids) ==
    IF module_ids = <<>> THEN <<>>
    ELSE (IF get_module(Head(module_ids)) = None THEN <<not_found(Head(module_ids))>>
          ELSE <<>>) \o missing_warnings(Tail(module_ids))

\* lines 499-503: the prerequisites of one module that are not selected
RECURSIVE module_prereq_warnings(_, _, _)
module_prereq_warnings(module_id, prereqs, selected) ==
    IF prereqs = <<>> THEN <<>>
    ELSE (IF \E i \in 1..Len(selected) : selected[i] = Head(prereqs) THEN <<>>
          ELSE << <<"Module '", module_name[module_id], "' requires prerequisite '",
                    DictGet(module_name, Head(prereqs), Head(prereqs)), "'">> >>)
         \o module_prereq_warnings(module_id, Tail(prereqs), selected)

\* lines 497-503: over the selected modules that are in the catalog
RECURSIVE prereq_warnings(_, _)
prereq_warnings(module_ids, selected) ==
    IF module_ids = <<>> THEN <<>>
    ELSE (IF get_module(Head(module_ids)) = None THEN <<>>
          ELSE module_prereq_warnings(Head(module_ids), prerequisites[Head(module_ids)],
                                      selected))
         \o prereq_warnings(Tail(module_ids), selected)

\* validate_estimate, lines 487-509
validate_estimate(input_data) ==
    ret' = [op |-> "validate_estimate", input |-> input_data, status |-> "ok",
            attribute |-> NoneStr,
            result |-> missing_warnings(input_data.modules)
                       \o prereq_warnings(input_data.modules, input_data.modules)
                       \o (IF Len(input_data.modules) > 10 /\ input_data.complexity = "S"
                           THEN <<"Small complexity with many modules may be unrealistic">>
                           ELSE <<>>)]

\* the instances of the EstimationInput dataclass that are estimated
EstimationInputs ==
    [modules : {<<>>, <<"sa_license_audit">>, <<"dt_discovery", "dt_strategy">>,
                <<"dt_discovery", "dt_discovery">>, <<"dt_discovery", "no_such_module">>,
                <<"dt_strategy">>},
     complexity : {"S", "M", "XL"},
     environment : {"production", "development"},
     integration_level : {"moderate_integration", "custom"},
     geography : {"dc_metro"},
     clearance_level : {"secret", "none"},
     is_prime_contractor : BOOLEAN,
     custom_role_overrides : {<<>>, [project_manager |-> Rat(1, 2)]},
     sites : {0, 1, 3},
     overtime : BOOLEAN,
     odc_items : {<<>>, <<500, 250>>},
     fixed_price_items : {<<>>},
     hardware_subtotal : {0},
     warranty_cost : {0, 100}]

(***************************************************************************)
(* get_current_user, main.py 90-114, and the token verifiers, main.py      *)
(* 2235-2293.  An Authorization header is None or a string, kept as its    *)
(* sequence of characters with a token standing as one element; a token    *)
(* is described by what the verifiers find in it.                          *)
(***************************************************************************)
VARIABLES
    auth_request     \* AUTH_REQUIRED, the Cognito settings and the header of a request

NoneHeader == <<NoneStr>>
DEV_DEFAULT_USER_EMAIL == "anonymous@example.com"
COGNITO_CLIENT_ID == "client_1"
COGNITO_ISS == "https://cognito-idp/pool_1"
\* time.time() at the verification
TokenNow == 10
\* the key ids of the pool's JWKS
JwksKids == {"k1"}

Tok(hs256_ok, purpose, sub, header_ok, kid, rs256_ok, iss, aud, client_id, exp, email) ==
    [hs256_ok |-> hs256_ok, purpose |-> purpose, sub |-> sub, header_ok |-> header_ok,
     kid |-> kid, rs256_ok |-> rs256_ok, iss |-> iss, aud |-> aud,
     client_id |-> client_id, exp |-> exp, email |-> email]

\* what is not a JWT at all
Garbage == Tok(FALSE, NoneStr, NoneStr, FALSE, NoneStr, FALSE, NoneStr, NoneStr, NoneStr,
               NoneInt, NoneStr)

\* _issue_token, lines 2221-2230: a signed HS256 token for the email, the
\* expiry counted in minutes from now
issue_token(email, ttl_minutes, purpose) ==
    Tok(TRUE, purpose, email, TRUE, NoneStr, FALSE, NoneStr, NoneStr, NoneStr,
        TokenNow + ttl_minutes, NoneStr)

\* the tokens a header or an exchange can carry
TokenTable ==
    [ magic_anon |-> issue_token(DEV_DEFAULT_USER_EMAIL, 15, "magic"),
      magic_nosub |-> Tok(TRUE, "magic", NoneStr, TRUE, NoneStr, FALSE, NoneStr,
                          NoneStr, NoneStr, 20, NoneStr),
      magic_forged |-> Tok(FALSE, "magic", "a@example.com", TRUE, NoneStr, FALSE, NoneStr,
                           NoneStr, NoneStr, 20, NoneStr),
      local_ok |-> Tok(TRUE, "access", "a@example.com", TRUE, NoneStr, FALSE, NoneStr,
                       NoneStr, NoneStr, 20, NoneStr),
      local_magic |-> Tok(TRUE, "magic", "a@example.com", TRUE, NoneStr, FALSE, NoneStr,
                          NoneStr, NoneStr, 20, NoneStr),
      local_nosub |-> Tok(TRUE, "access", NoneStr, TRUE, NoneStr, FALSE, NoneStr,
                          NoneStr, NoneStr, 20, NoneStr),
      local_bad |-> Tok(FALSE, "access", "a@example.com", TRUE, NoneStr, FALSE, NoneStr,
                        NoneStr, NoneStr, 5, NoneStr),
      cog_ok |-> Tok(FALSE, NoneStr, "u1", TRUE, "k1", TRUE, COGNITO_ISS,
                     COGNITO_CLIENT_ID, NoneStr, 20, "b@example.com"),
      cog_access |-> Tok(FALSE, NoneStr, "u1", TRUE, "k1", TRUE, COGNITO_ISS,
                         NoneStr, COGNITO_CLIENT_ID, 20, "b@example.com"),
      cog_forged |-> Tok(FALSE, NoneStr, "u1", TRUE, "k1", FALSE, COGNITO_ISS,
                         COGNITO_CLIENT_ID, NoneStr, 20, "b@example.com"),
      cog_key9 |-> Tok(FALSE, NoneStr, "u1", TRUE, "k9", TRUE, COGNITO_ISS,
                       COGNITO_CLIENT_ID, NoneStr, 20, "b@example.com"),
      cog_iss |-> Tok(FALSE, NoneStr, "u1", TRUE, "k1", TRUE, "https://other",
                      COGNITO_CLIENT_ID, NoneStr, 20, "b@example.com"),
      cog_aud |-> Tok(FALSE, NoneStr, "u1", TRUE, "k1", TRUE, COGNITO_ISS,
                      "client_2", COGNITO_CLIENT_ID, 20, "b@example.com"),
      cog_expired |-> Tok(FALSE, NoneStr, "u1", TRUE, "k1", TRUE, COGNITO_ISS,
                          COGNITO_CLIENT_ID, NoneStr, 9, "b@example.com"),
      cog_noexp |-> Tok(FALSE, NoneStr, "u1", TRUE, "k1", TRUE, COGNITO_ISS,
                        COGNITO_CLIENT_ID, NoneStr, NoneInt, "b@example.com"),
      cog_noemail |-> Tok(FALSE, NoneStr, "u1", TRUE, "k1", TRUE, COGNITO_ISS,
                          COGNITO_CLIENT_ID, NoneStr, 20, "") ]

Ok(user) == [status |-> "ok", result |-> user]
HTTPException(code) == [status |-> "HTTPException", status_code |-> code]
Raised(exc) == [status |-> exc]

\* _verify_token without the test of the purpose
verify_token_any_purpose(tok, purpose) ==
    IF ~tok.hs256_ok THEN HTTPException(400)
    ELSE Ok(IF tok.sub = NoneStr THEN "None" ELSE tok.sub)

\* _verify_token, lines 2235-2243
verify_token(tok, purpose) ==
    IF ~tok.hs256_ok THEN HTTPException(400)
    ELSE IF tok.purpose # purpose THEN HTTPException(400)
    ELSE Ok(IF tok.sub = NoneStr THEN "None" ELSE tok.sub)

\* _verify_cognito_token, lines 2246-2293
verify_cognito_token(tok, cfg) ==
    IF cfg.COGNITO_REGION = NoneStr \/ cfg.COGNITO_USER_POOL_ID = NoneStr
       \/ cfg.COGNITO_CLIENT_ID = NoneStr
    THEN verify_token(tok, "access")
    ELSE IF ~tok.header_ok THEN HTTPException(401)
    ELSE IF tok.kid = NoneStr THEN HTTPException(401)
    ELSE IF ~cfg.jwks_up THEN Raised("URLError")
    ELSE IF tok.kid \notin JwksKids THEN HTTPException(401)
    ELSE IF ~tok.rs256_ok THEN HTTPException(401)
    ELSE IF tok.iss # COGNITO_ISS THEN HTTPException(401)
    ELSE IF (IF Falsy(tok.aud) THEN tok.client_id ELSE tok.aud) # COGNITO_CLIENT_ID
         THEN HTTPException(401)
    ELSE IF (IF tok.exp = NoneInt THEN 0 ELSE tok.exp) < TokenNow THEN HTTPException(401)
    ELSE IF Falsy(tok.email) THEN HTTPException(401)
    ELSE Ok(tok.email)

\* s.startswith(p)
StartsWith(s, p) == Len(s) >= Len(p) /\ SubSeq(s, 1, Len(p)) = p

\* line 103 with the scheme not looked at
is_bearer_any(authorization) == authorization # NoneHeader /\ authorization # <<>>

\* line 103: authorization and authorization.lower().startswith("bearer ")
is_bearer(authorization) ==
    /\ authorization # NoneHeader
    /\ authorization # <<>>
    /\ StartsWith([i \in 1..Len(authorization) |-> Lower(authorization[i])],
                  <<"b", "e", "a", "r", "e", "r", " ">>)

\* line 108: authorization.split(" ", 1)[1].strip()
bearer_token(authorization) ==
    LET spaces == {i \in 1..Len(authorization) : authorization[i] = " "}
    IN  IF spaces = {} THEN <<"IndexError">>
        ELSE LET first == CHOOSE i \in spaces : \A j \in spaces : i <= j
             IN  Strip(SubSeq(authorization, first + 1, Len(authorization)))

\* what the characters of the token are
token_of(raw) ==
    IF Len(raw) = 1 /\ raw[1] \in DOMAIN TokenTable THEN TokenTable[raw[1]] ELSE Garbage

\* get_current_user's result
current_user(req) ==
    IF ~is_bearer(req.authorization)
    THEN IF req.AUTH_REQUIRED THEN HTTPException(401) ELSE Ok(DEV_DEFAULT_USER_EMAIL)
    ELSE LET raw == bearer_token(req.authorization)
             verified == IF raw = <<"IndexError">> THEN Raised("IndexError")
                         ELSE verify_cognito_token(token_of(raw), req.cognito)
         IN  IF raw = <<"IndexError">> THEN verified
             ELSE IF verified.status = "ok" THEN verified
             ELSE IF req.AUTH_REQUIRED THEN HTTPException(401)
             ELSE Ok(DEV_DEFAULT_USER_EMAIL)

\* get_current_user
get_current_user ==
    ret' = [op |-> "get_current_user", request |-> auth_request]
           @@ current_user(auth_request)

\* auth_exchange's result, lines 2316-2321
exchanged(tok) ==
    LET verified == verify_token(tok, "magic")
    IN  IF verified.status # "ok" THEN verified
        ELSE Ok([access_token |-> issue_token(verified.result, 60 * 24 * 7, "access"),
                 token_type |-> "bearer", email |-> verified.result])

\* auth_exchange, for the token of this name
auth_exchange(name) ==
    ret' = [op |-> "auth_exchange", token |-> name] @@ exchanged(token_of(<<name>>))

Chars(scheme, sep, tok, tail) == scheme \o sep \o tok \o tail

\* the Authorization headers of the requests
Authorizations ==
    {NoneHeader, <<>>, <<"B", "e", "a", "r", "e", "r">>,
     <<"B", "e", "a", "r", "e", "r", " ">>}
    \cup {Chars(scheme, sep, <<t>>, tail) :
            scheme \in {<<"B", "e", "a", "r", "e", "r">>, <<"b", "e", "a", "r", "e", "r">>,
                        <<"B", "E", "A", "R", "E", "R">>, <<"B", "a", "s", "i", "c">>,
                        <<>>},
            sep \in {<<" ">>, <<>>, <<" ", " ">>},
            t \in {"local_ok", "cog_ok", "junk"},
            tail \in {<<>>, <<" ">>}}
    \cup {<<"B", "e", "a", "r", "e", "r", " ", t>> : t \in DOMAIN TokenTable}
    \cup {<<"B", "e", "a", "r", "e", "r", " ", "local_ok", " ", "cog_ok">>}

CognitoConfigs ==
    { [COGNITO_REGION |-> NoneStr, COGNITO_USER_POOL_ID |-> NoneStr,
       COGNITO_CLIENT_ID |-> NoneStr, jwks_up |-> TRUE],
      [COGNITO_REGION |-> "r1", COGNITO_USER_POOL_ID |-> "pool_1",
       COGNITO_CLIENT_ID |-> NoneStr, jwks_up |-> TRUE],
      [COGNITO_REGION |-> "r1", COGNITO_USER_POOL_ID |-> "pool_1",
       COGNITO_CLIENT_ID |-> COGNITO_CLIENT_ID, jwks_up |-> TRUE],
      [COGNITO_REGION |-> "r1", COGNITO_USER_POOL_ID |-> "pool_1",
       COGNITO_CLIENT_ID |-> COGNITO_CLIENT_ID, jwks_up |-> FALSE] }

AuthRequests ==
    [AUTH_REQUIRED : BOOLEAN, cognito : CognitoConfigs, authorization : Authorizations]

(***************************************************************************)
(* The contract endpoints of main.py 1567-1635 over the                    *)
(* contract_opportunities table that the sync fills.  A handler holds one  *)
(* short session and is one step; an exception that no handler catches     *)
(* (IntegrityError) rolls the session back and is answered with 500.       *)
(***************************************************************************)
MaxApiClock == 1       \* the last clock tick while the endpoints are used

\* the request had no value: Python's None for a string of characters
NoStatus == <<NoneStr>>

\* CONTRACT_STATUSES, line 71, by their characters
StatusChars ==
    [new |-> <<"n", "e", "w">>,
     in_progress |-> <<"i", "n", "_", "p", "r", "o", "g", "r", "e", "s", "s">>,
     submitted |-> <<"s", "u", "b", "m", "i", "t", "t", "e", "d">>,
     awarded |-> <<"a", "w", "a", "r", "d", "e", "d">>,
     lost |-> <<"l", "o", "s", "t">>]
CONTRACT_STATUSES == DOMAIN StatusChars

StatusPending == <<"p", "e", "n", "d", "i", "n", "g">>

\* _normalize_contract_status, lines 489-497: None, the status, or HTTP 400;
\* line 492 is the expression of contract_store_service.py 127
normalize_contract_status(raw) ==
    IF raw = NoStatus THEN Ok(NoneStr)
    ELSE LET stripped == normalize_status(raw)
             val == IF stripped = StatusPending THEN StatusChars["submitted"] ELSE stripped
         IN  IF \E s \in CONTRACT_STATUSES : StatusChars[s] = val
             THEN Ok(CHOOSE s \in CONTRACT_STATUSES : StatusChars[s] = val)
             ELSE HTTPException(400)

\* the status values of the requests
StatusInputs ==
    { NoStatus, <<>>, <<" ", "i", "N", "-", "p", "R", "o", "g", "r", "e", "s", "s", " ">>,
      StatusPending, <<"b", "o", "g", "u", "s">> }

\* the bodies of POST /contracts: each has a source_id, so that
\* uq_contract_source bounds the table
ContractBodies ==
    {[source |-> b[1], source_id |-> b[2], title |-> "T", status |-> s] :
       b \in {<<"sam.gov", "n1">>}, s \in StatusInputs}

\* the bodies of PATCH /contracts/{id}, as body.dict(exclude_unset=True)
ContractUpdates ==
    {[status |-> s] : s \in StatusInputs}
      \cup {[award_notes |-> "price"]}

\* the flush refuses the row at this place of the table: status is NOT NULL
\* and (source, source_id) is unique
flush_refuses(table, id, row) ==
    \/ row.status = NoneStr
    \/ /\ row.source_id # NoneStr
       /\ matching(table, row.source, row.source_id) \ {id} # {}

\* create_contract, lines 1567-1608
api_create_contract(body) ==
    LET call == [op |-> "create_contract", body |-> body]
        status == normalize_contract_status(IF body.status = NoStatus \/ body.status = <<>>
                                            THEN StatusChars["new"] ELSE body.status)
        contract == ContractRow(IF Falsy(body.source) THEN "manual" ELSE body.source,
                                body.source_id, body.title, status.result, <<>>, clock)
    IN  /\ IF status.status # "ok"
           THEN ret' = call @@ status /\ UNCHANGED contracts
           ELSE IF flush_refuses(contracts, 0, contract)
           THEN ret' = call @@ Raised("IntegrityError") /\ UNCHANGED contracts
           ELSE /\ contracts' = Append(contracts, contract)
                /\ ret' = call @@ Ok(Len(contracts) + 1)
        /\ UNCHANGED <<clock, SAM_API_KEY, SAM_SYNC_LOCK, SAM_SYNC_STATE, sync_state, runs,
                       fetches>>

\* update_contract, lines 1611-1635
api_update_contract(contract_id, body) ==
    LET call == [op |-> "update_contract", id |-> contract_id, body |-> body]
        status == IF "status" \in DOMAIN body THEN normalize_contract_status(body.status)
                  ELSE Ok(NoneStr)
        patch == IF "status" \in DOMAIN body THEN [body EXCEPT !.status = status.result]
                 ELSE body
        now == clock
    IN  /\ IF status.status # "ok"
           THEN ret' = call @@ status /\ UNCHANGED contracts
           ELSE IF contract_id \notin 1..Len(contracts)
           THEN ret' = call @@ HTTPException(404) /\ UNCHANGED contracts
           ELSE LET set == DictUpdate(contracts[contract_id], patch)
                    submitted == IF DictGet(patch, "status", NoneStr) = "submitted"
                                    /\ set.report_submitted_at = NoneInt
                                 THEN [set EXCEPT !.report_submitted_at = now] ELSE set
                    decided == IF DictGet(patch, "status", NoneStr) \in {"awarded", "lost"}
                                  /\ submitted.decision_date = NoneInt
                               THEN [submitted EXCEPT !.decision_date = now] ELSE submitted
                    contract == [decided EXCEPT !.updated_at = now]
                IN  IF flush_refuses(contracts, contract_id, contract)
                    THEN ret' = call @@ Raised("IntegrityError") /\ UNCHANGED contracts
                    ELSE /\ contracts' = [contracts EXCEPT ![contract_id] = contract]
                         /\ ret' = call @@ Ok(contract_id)
        /\ UNCHANGED <<clock, SAM_API_KEY, SAM_SYNC_LOCK, SAM_SYNC_STATE, sync_state, runs,
                       fetches>>

\* the pages of the fetches made while the endpoints are used
OpportunityPages ==
    { <<SamRecord("n1", "A")>>,
      <<SamRecord("n1", " "), SamRecord(NoneStr, "B"), SamRecord("n1", "B")>>,
      <<SamRecord("n1", NoneStr)>> }

(***************************************************************************)
(* The LLM calls: AIService.generate_narrative (ai_service.py 27-131),     *)
(* AIService.rewrite_narrative_section (206-283) and the report endpoint   *)
(* generate_report (main.py 1237-1462).  The chat-completion call answers  *)
(* with JSON, with text that does not parse, or raises; a text is kept as  *)
(* a pair of where it comes from and the section it is about.              *)
(***************************************************************************)
VARIABLES
    ai_request       \* one call: its arguments, the API key, the SDK, the LLM's answer

\* models.py 77-106: the fields of the EstimationInput dataclass
EstimationInputFields ==
    {"modules", "complexity", "environment", "integration_level", "geography",
     "clearance_level", "is_prime_contractor", "custom_role_overrides", "project_name",
     "government_poc", "account_manager", "service_delivery_mgr", "service_delivery_exec",
     "site_location", "email", "fy", "rap_number", "psi_code", "additional_comments",
     "sites", "overtime", "odc_items", "fixed_price_items", "hardware_subtotal",
     "warranty_months", "warranty_cost"}

\* main.py 1249-1282: the keyword arguments generate_report constructs it with
ReportInputKwargs ==
    {"modules", "complexity", "environment", "integration_level", "geography",
     "clearance_level", "is_prime_contractor", "custom_role_overrides", "project_name",
     "government_poc", "account_manager", "service_delivery_mgr", "service_delivery_exec",
     "site_location", "email", "fy", "rap_number", "psi_code", "additional_comments",
     "security_protocols", "compliance_frameworks", "additional_assumptions", "sites",
     "overtime", "period_of_performance", "estimating_method", "historical_estimates",
     "odc_items", "fixed_price_items", "hardware_subtotal", "warranty_months",
     "warranty_cost"}

\* the sections _offline_narrative writes, lines 1095-1138
OfflineSections == {"executive_summary", "assumptions", "risks", "recommendations"}
DefaultSections == <<"executive_summary", "assumptions", "risks", "recommendations">>

Elems(seq) == {seq[i] : i \in 1..Len(seq)}

\* _offline_narrative, lines 1056-1138
offline_narrative(sections) ==
    LET secs == IF sections = <<>> THEN DefaultSections ELSE sections
    IN  [k \in Elems(secs) \cap OfflineSections |-> <<"offline", k>>]

\* AIService.is_configured
ai_is_configured(req) == ~Falsy(req.OPENAI_API_KEY)

\* lines 103-131: the call, the offline text if it raises, the parsed answer
narrative_of_completion(req, sections) ==
    IF req.completion = "raises" THEN Ok(offline_narrative(sections))
    ELSE IF req.completion = "json"
    THEN Ok([k \in Elems(sections) |-> <<"llm", k>>])
    ELSE Ok([k \in {IF sections = <<>> THEN "executive_summary" ELSE sections[1]} |->
               <<"llm_raw", "content">>])

\* AIService.generate_narrative's result; sections is <<NoneStr>> for None
ai_generate_narrative(req) ==
    IF ~ai_is_configured(req) THEN Raised("RuntimeError")
    ELSE IF ~req.sdk THEN Raised("RuntimeError")
    ELSE narrative_of_completion(req, IF req.sections = <<NoneStr>> THEN DefaultSections
                                      ELSE req.sections)

\* AIService.rewrite_narrative_section's result: (text, raw)
ai_rewrite_narrative_section(req) ==
    IF ~ai_is_configured(req) THEN Raised("RuntimeError")
    ELSE IF ~req.sdk THEN Raised("RuntimeError")
    ELSE IF req.completion = "raises"
    THEN LET fallback == offline_narrative(<<req.section>>)
         IN  Ok(<<IF req.section \in DOMAIN fallback THEN fallback[req.section]
                  ELSE IF req.current_text = NoneStr THEN <<"text", "">>
                  ELSE <<"text", req.current_text>>,
                  NoneStr>>)
    ELSE IF req.completion = "json" THEN Ok(<<<<"llm", req.section>>, "content">>)
    ELSE Ok(<<<<"llm_raw", "content">>, "content">>)

\* AIService.generate_subtasks, lines 133-204
ai_generate_subtasks(req) ==
    IF ~ai_is_configured(req) THEN Raised("RuntimeError")
    ELSE IF ~req.sdk THEN Raised("RuntimeError")
    ELSE IF req.completion = "raises" THEN Raised("APIError")
    ELSE IF req.completion = "json" THEN Ok("ai_subtasks")
    ELSE Raised("SubtaskAIError")

\* main.py 1249-1282: EstimationInput(**kwargs)
construct_estimation_input(kwargs) ==
    IF kwargs \subseteq EstimationInputFields THEN Ok(kwargs) ELSE Raised("TypeError")

\* main.py 1338-1357: the subtasks of the report and their status
report_subtasks(req) ==
    IF ~req.use_ai_subtasks THEN <<"deterministic_subtasks", "deterministic">>
    ELSE IF ~ai_is_configured(req) THEN <<"deterministic_subtasks", "ai_disabled">>
    ELSE LET generated == ai_generate_subtasks(req)
         IN  IF generated.status = "ok" THEN <<generated.result, "ai_generated">>
             ELSE <<"deterministic_subtasks", "ai_failed">>

\* main.py 1369-1384: the narrative of the report, None if there is none; the
\* request brings no narrative of its own and names no sections
report_narrative(req) ==
    IF ~req.include_ai \/ ~ai_is_configured(req) THEN None
    ELSE LET generated == ai_generate_narrative([req EXCEPT !.sections = <<NoneStr>>])
         IN  IF generated.status = "ok" THEN generated.result ELSE None

\* generate_report: the input is constructed, estimated, and the PDF built
report_response(req) ==
    LET constructed == construct_estimation_input(ReportInputKwargs)
    IN  IF constructed.status # "ok" THEN constructed
        ELSE IF "estimating_method" \notin constructed.result
        THEN Raised("AttributeError")
        ELSE Ok([pdf |-> TRUE,
                 module_subtasks |-> report_subtasks(req)[1],
                 subtask_generation_status |-> report_subtasks(req)[2],
                 narrative_sections |-> report_narrative(req)])

\* one call of the three
ai_call ==
    ret' = [op |-> ai_request.op, request |-> ai_request]
           @@ (CASE ai_request.op = "generate_narrative" -> ai_generate_narrative(ai_request)
                 [] ai_request.op = "rewrite_narrative_section" ->
                      ai_rewrite_narrative_section(ai_request)
                 [] OTHER -> report_response(ai_request))

\* the calls explored
AiRequests ==
    [op : {"generate_narrative", "rewrite_narrative_section", "generate_report"},
     OPENAI_API_KEY : {NoneStr, "", "sk-1"},
     sdk : BOOLEAN,
     completion : {"json", "unparseable", "raises"},
     sections : {<<NoneStr>>, <<"executive_summary", "risks">>, <<"risks", "scope_notes">>},
     section : {"assumptions", "scope_notes"},
     current_text : {NoneStr, "t0"},
     use_ai_subtasks : BOOLEAN,
     include_ai : BOOLEAN]

(***************************************************************************)
(* The specifications: one per component, each leaving the variables of    *)
(* the other components at their initial values.                           *)
(***************************************************************************)
InitProposals ==
    /\ proposals_mem = <<>>
    /\ versions_mem = <<>>
    /\ documents_mem = <<>>
    /\ threads = [t \in Threads |-> [pc |-> "idle"]]

InitSync ==
    /\ clock = 0
    /\ SAM_SYNC_LOCK = NoneStr
    /\ SAM_SYNC_STATE = [last_run |-> NoneInt, last_error |-> NoneStr]
    /\ sync_state = NewSyncState
    /\ contracts = <<>>
    /\ runs = [r \in Runners |-> IdleRun]
    /\ fetches = [d \in Days |-> 0]

InitJobs ==
    /\ jobs_memory = <<>>
    /\ contracts_mem = <<>>
    /\ sync_mem = <<>>

InitEnv == env = DevEnv

InitRet == ret = [op |-> "init", status |-> "ok"]

\* the inputs of the calls that only compute
inVars == <<est_input, auth_request, ai_request>>

\* no request is being served
NoRequest ==
    [AUTH_REQUIRED |-> TRUE,
     cognito |-> [COGNITO_REGION |-> NoneStr, COGNITO_USER_POOL_ID |-> NoneStr,
                  COGNITO_CLIENT_ID |-> NoneStr, jwks_up |-> TRUE],
     authorization |-> NoneHeader]

\* no LLM call is being made
NoAiRequest ==
    [op |-> "generate_narrative", OPENAI_API_KEY |-> NoneStr, sdk |-> TRUE,
     completion |-> "json", sections |-> <<NoneStr>>, section |-> "assumptions",
     current_text |-> NoneStr, use_ai_subtasks |-> FALSE, include_ai |-> FALSE]

InitRequests == auth_request = NoRequest /\ ai_request = NoAiRequest

Init ==
    /\ InitProposals
    /\ InitSync
    /\ InitJobs
    /\ InitEnv
    /\ est_input = None
    /\ SAM_API_KEY = TRUE
    /\ InitRet
    /\ InitRequests

vars == <<proposals_mem, versions_mem, documents_mem, threads, ret, syncVars, svcVars,
          inVars, env, sync_mem>>

\* the variables of each component
jobVars == <<jobs_memory, clock>>
contractVars == <<contracts_mem, clock>>
syncStoreVars == <<sync_mem, clock>>
\* what no store call touches
restVars == <<samVars, inVars, env>>

InitStore == Init

\* the store used by one caller at a time
NextStore ==
    \/ \E o \in Emails, tp \in TitlePayloads :
         create_proposal(o, tp[1], tp[2]) /\ UNCHANGED <<syncVars, svcVars, inVars, env, sync_mem>>
    \/ \E id \in ProposalIds, o \in Emails, tp \in TitlePayloads :
         create_version(id, o, tp[1], tp[2]) /\ UNCHANGED <<syncVars, svcVars, inVars, env, sync_mem>>
    \/ \E id \in ProposalIds, o \in Emails, v \in {NoneInt, 1} :
         add_document(id, o, v) /\ UNCHANGED <<syncVars, svcVars, inVars, env, sync_mem>>
    \/ \E id \in ProposalIds, d \in DocumentIds, o \in Emails :
         delete_document(id, d, o) /\ UNCHANGED <<syncVars, svcVars, inVars, env, sync_mem>>
    \/ \E id \in ProposalIds, o \in Emails :
         ReadProposalStore(id, o) /\ UNCHANGED <<syncVars, svcVars, inVars, env, sync_mem>>

SpecStore == InitStore /\ [][NextStore]_vars

\* the store shared by threads that call create_version
NextStoreThreads ==
    \/ \E o \in Emails, tp \in TitlePayloads :
         create_proposal(o, tp[1], tp[2]) /\ UNCHANGED <<syncVars, svcVars, inVars, env, sync_mem>>
    \/ \E th \in Threads, id \in ProposalIds, o \in Emails, tp \in TitlePayloads :
         cv_get(th, id, o, tp[1], tp[2]) /\ UNCHANGED <<syncVars, svcVars, inVars, env, sync_mem>>
    \/ \E th \in Threads : cv_next(th) /\ UNCHANGED <<syncVars, svcVars, inVars, env, sync_mem>>
    \/ \E th \in Threads : cv_write(th) /\ UNCHANGED <<syncVars, svcVars, inVars, env, sync_mem>>

SpecStoreThreads == InitStore /\ [][NextStoreThreads]_vars

\* the contract sync: the poller, a manual request, the status query, time
InitSam ==
    /\ InitProposals
    /\ InitSync
    /\ InitJobs
    /\ InitEnv
    /\ est_input = None
    /\ SAM_API_KEY \in BOOLEAN
    /\ InitRet
    /\ InitRequests

NextSync ==
    \/ \E r \in Runners : sync_start(r) /\ UNCHANGED <<storeVars, threads, svcVars, inVars, env, sync_mem>>
    \/ \E r \in Runners, o \in {"ok", "fetch_raises", "processing_raises"},
          rows \in SamPages : sync_fetch(r, o, rows) /\ UNCHANGED <<storeVars, threads, svcVars, inVars, env, sync_mem>>
    \/ \E r \in Runners : sync_commit(r) /\ UNCHANGED <<storeVars, threads, svcVars, inVars, env, sync_mem>>
    \/ \E r \in Runners : sync_rollback(r) /\ UNCHANGED <<storeVars, threads, svcVars, inVars, env, sync_mem>>
    \/ sam_sync_status /\ UNCHANGED <<storeVars, threads, svcVars, inVars, env, sync_mem>>
    \/ Tick /\ UNCHANGED <<storeVars, threads, svcVars, inVars, env, sync_mem>>

SpecSync == InitSam /\ [][NextSync]_vars

\* the contract table: the endpoints, a manual sync request, time
NextOpportunities ==
    \/ \E body \in ContractBodies :
         /\ api_create_contract(body)
         /\ UNCHANGED <<storeVars, threads, svcVars, inVars, env, sync_mem>>
    \/ \E id \in 1..2, body \in ContractUpdates :
         /\ api_update_contract(id, body)
         /\ UNCHANGED <<storeVars, threads, svcVars, inVars, env, sync_mem>>
    \/ sync_start("request") /\ UNCHANGED <<storeVars, threads, svcVars, inVars, env, sync_mem>>
    \/ \E rows \in OpportunityPages :
         /\ sync_fetch("request", "ok", rows)
         /\ UNCHANGED <<storeVars, threads, svcVars, inVars, env, sync_mem>>
    \/ sync_commit("request") /\ UNCHANGED <<storeVars, threads, svcVars, inVars, env, sync_mem>>
    \/ sync_rollback("request") /\ UNCHANGED <<storeVars, threads, svcVars, inVars, env, sync_mem>>
    \/ clock < MaxApiClock /\ Tick
         /\ UNCHANGED <<storeVars, threads, svcVars, inVars, env, sync_mem>>

SpecOpportunities == Init /\ [][NextOpportunities]_vars

\* the job registry used by one caller at a time
NextJobs ==
    \/ \E rq \in JobRequests, id \in {NoneStr, "", "job_1"} :
         /\ create_job(rq[1], rq[2], rq[3], id)
         /\ UNCHANGED <<storeVars, threads, samVars, contracts_mem, inVars, env, sync_mem>>
    \/ \E id \in JobIds \cup {""}, u \in StatusUpdates :
         /\ update_status(id, u[1], u[2], u[3])
         /\ UNCHANGED <<storeVars, threads, samVars, contracts_mem, inVars, env, sync_mem>>

SpecJobs == Init /\ [][NextJobs]_vars

\* the contract store used by one caller at a time
NextContracts ==
    \/ \E payload \in ContractPayloads :
         /\ create_contract(payload)
         /\ UNCHANGED <<storeVars, threads, samVars, jobs_memory, inVars, env, sync_mem>>
    \/ \E id \in ContractIds, patch \in ContractPatches :
         /\ update_contract(id, patch)
         /\ UNCHANGED <<storeVars, threads, samVars, jobs_memory, inVars, env, sync_mem>>

SpecContracts == Init /\ [][NextContracts]_vars

\* the estimate of one input
InitCalc ==
    /\ InitProposals
    /\ InitSync
    /\ InitJobs
    /\ InitEnv
    /\ SAM_API_KEY = TRUE
    /\ InitRet
    /\ InitRequests
    /\ est_input \in EstimationInputs

NextCalc ==
    \/ calculate_estimate(est_input)
         /\ UNCHANGED <<storeVars, threads, syncVars, svcVars, inVars, env, sync_mem>>
    \/ validate_estimate(est_input)
         /\ UNCHANGED <<storeVars, threads, syncVars, svcVars, inVars, env, sync_mem>>

SpecCalc == InitCalc /\ [][NextCalc]_vars

\* the sync state store used by one caller at a time
NextSyncStore ==
    \/ \E state \in SyncStates :
         /\ save_sync_state(state)
         /\ UNCHANGED <<storeVars, threads, jobs_memory, contracts_mem, restVars>>
    \/ \E source \in Sources :
         /\ get_sync_state(source)
         /\ UNCHANGED <<storeVars, threads, jobs_memory, contracts_mem, restVars>>

SpecSyncStore == Init /\ [][NextSyncStore]_vars

\* the three services constructed in any of the environments, one call at a time
InitConfig ==
    /\ InitProposals
    /\ InitSync
    /\ InitJobs
    /\ est_input = None
    /\ SAM_API_KEY = TRUE
    /\ InitRet
    /\ InitRequests
    /\ env \in Environments

NextConfig ==
    \/ create_proposal("a@example.com", "T1", "p1")
         /\ UNCHANGED <<jobVars, contracts_mem, sync_mem, restVars>>
    \/ create_version("prop_1", "a@example.com", NoneStr, "p2")
         /\ UNCHANGED <<jobVars, contracts_mem, sync_mem, restVars>>
    \/ add_document("prop_1", "a@example.com", 1)
         /\ UNCHANGED <<jobVars, contracts_mem, sync_mem, restVars>>
    \/ delete_document("prop_1", "doc_1", "a@example.com")
         /\ UNCHANGED <<jobVars, contracts_mem, sync_mem, restVars>>
    \/ create_job("a@example.com", "report", "rq1", NoneStr)
         /\ UNCHANGED <<storeVars, threads, contracts_mem, sync_mem, restVars>>
    \/ \E item \in SavedJobs : save_job(item)
         /\ UNCHANGED <<storeVars, threads, contracts_mem, sync_mem, restVars>>
    \/ update_status("job_1", "running", NoneStr, NoneStr)
         /\ UNCHANGED <<storeVars, threads, contracts_mem, sync_mem, restVars>>
    \/ ReadJob("job_1")
         /\ UNCHANGED <<storeVars, threads, contracts_mem, sync_mem, restVars>>
    \/ create_contract([title |-> "T1", status |-> StatusNew])
         /\ UNCHANGED <<storeVars, threads, jobs_memory, sync_mem, restVars>>
    \/ \E contract \in SavedContracts : save_contract(contract)
         /\ UNCHANGED <<storeVars, threads, jobs_memory, sync_mem, restVars>>
    \/ update_contract("con_1", [status |-> StatusWon])
         /\ UNCHANGED <<storeVars, threads, jobs_memory, sync_mem, restVars>>
    \/ save_sync_state([source |-> "sam.gov", requests_today |-> 1])
         /\ UNCHANGED <<storeVars, threads, jobs_memory, contracts_mem, restVars>>

SpecConfig == InitConfig /\ [][NextConfig]_vars

\* one request resolved to its user
InitAuth ==
    /\ InitProposals
    /\ InitSync
    /\ InitJobs
    /\ InitEnv
    /\ est_input = None
    /\ SAM_API_KEY = TRUE
    /\ InitRet
    /\ auth_request \in AuthRequests
    /\ ai_request = NoAiRequest

NextAuth ==
    \/ get_current_user
         /\ UNCHANGED <<storeVars, threads, syncVars, svcVars, inVars, env, sync_mem>>
    \/ \E name \in DOMAIN TokenTable \cup {"junk"} :
         /\ auth_exchange(name)
         /\ UNCHANGED <<storeVars, threads, syncVars, svcVars, inVars, env, sync_mem>>

SpecAuth == InitAuth /\ [][NextAuth]_vars

\* one LLM-backed call
InitAi ==
    /\ InitProposals
    /\ InitSync
    /\ InitJobs
    /\ InitEnv
    /\ est_input = None
    /\ SAM_API_KEY = TRUE
    /\ InitRet
    /\ auth_request = NoRequest
    /\ ai_request \in AiRequests

NextAi ==
    ai_call /\ UNCHANGED <<storeVars, threads, syncVars, svcVars, inVars, env, sync_mem>>

SpecAi == InitAi /\ [][NextAi]_vars

\* the job registry used by two threads
NextJobThreads ==
    \/ \E rq \in JobRequests :
         /\ create_job(rq[1], rq[2], rq[3], "job_1")
         /\ UNCHANGED <<storeVars, threads, samVars, contracts_mem, inVars, env, sync_mem>>
    \/ \E t \in Threads, id \in {"job_1", "job_2"}, u \in StatusUpdates :
         /\ us_get(t, id, u[1], u[2], u[3])
         /\ UNCHANGED <<storeVars, samVars, contracts_mem, inVars, env, sync_mem>>
    \/ \E t \in Threads :
         /\ us_save(t)
         /\ UNCHANGED <<storeVars, samVars, contracts_mem, inVars, env, sync_mem>>

SpecJobThreads == Init /\ [][NextJobThreads]_vars

(***************************************************************************)
(* Properties of the proposal store.                                       *)
(***************************************************************************)

OwnerOf(proposal_id) == proposals_mem[proposal_id].owner_email

\* the caller is not the owner of an existing proposal, or the id is unknown
NotOwned(proposal_id, owner_email) ==
    \/ proposal_id \notin DOMAIN proposals_mem
    \/ proposals_mem[proposal_id].owner_email # owner_email

\* C1: with calls made one at a time, create_proposal stores version 1, every
\* create_version returns the previous highest version number plus 1, and
\* list_versions returns exactly the versions 1..n in ascending order.
C1_VersionsAreOneToN ==
    /\ \A id \in DOMAIN proposals_mem :
         LET vs == list_versions(id, OwnerOf(id))
         IN  /\ Len(vs) >= 1
             /\ \A i \in 1..Len(vs) : vs[i].version = i
    /\ (ret.op = "create_proposal") =>
         versions_mem[ret.proposal_id][1].version = 1
    /\ (ret.op = "create_version" /\ ret.status = "ok") =>
         LET vs == list_versions(ret.proposal_id, ret.owner_email)
         IN  /\ ret.result.version = Len(vs)
             /\ \A i \in 1..(Len(vs) - 1) : vs[i].version < ret.result.version
             /\ Len(vs) >= 2 /\ vs[Len(vs) - 1].version + 1 = ret.result.version

\* create_version has just returned the highest version of the list
C1_Witness ==
    /\ ret.op = "create_version" /\ ret.status = "ok"
    /\ ret.result.version = MaxVersions
    /\ Len(list_versions(ret.proposal_id, ret.owner_email)) = MaxVersions

\* C4: a caller who is not the owner of a proposal gets None from
\* get_owned_proposal, get_version and get_document and an empty list from
\* list_versions and list_documents, whatever the store holds.
C4_NonOwnerReadsNothing ==
    /\ \A id \in DOMAIN proposals_mem : \A b \in Emails \ {OwnerOf(id)} :
         /\ get_owned_proposal(id, b) = None
         /\ list_versions(id, b) = <<>>
         /\ \A v \in 1..(MaxVersions + 1) : get_version(id, v, b) = None
         /\ \A v \in {NoneInt, 1} : list_documents(id, b, v) = {}
         /\ \A d \in DocumentIds : get_document(id, d, b) = None
    /\ (ret.op = "read" /\ NotOwned(ret.proposal_id, ret.owner_email)) =>
         /\ ret.owned_proposal = None
         /\ ret.versions = <<>>
         /\ ret.documents = {}
         /\ \A v \in DOMAIN ret.got_version : ret.got_version[v] = None
         /\ \A d \in DOMAIN ret.got_document : ret.got_document[d] = None

\* a non-owner has read a proposal that has two versions and a document
C4_Witness ==
    /\ ret.op = "read"
    /\ ret.proposal_id \in DOMAIN proposals_mem
    /\ ret.owner_email # OwnerOf(ret.proposal_id)
    /\ Len(versions_mem[ret.proposal_id]) >= 2
    /\ DOMAIN documents_mem[ret.proposal_id] # {}

\* C5: a write by a non-owner or on an unknown proposal id is rejected and
\* changes nothing: create_version and add_document raise KeyError,
\* delete_document returns False, and the store is as before the call.
C5_RejectedWriteChangesNothing ==
    [][(/\ ret'.op \in {"create_version", "add_document", "delete_document"}
        /\ NotOwned(ret'.proposal_id, ret'.owner_email))
       => /\ UNCHANGED storeVars
          /\ ret'.op \in {"create_version", "add_document"} => ret'.status = "KeyError"
          /\ ret'.op = "delete_document" => (ret'.status = "ok" /\ ret'.result = FALSE)]_vars

\* a non-owner's delete_document was answered False while the document exists
C5_Witness ==
    /\ ret.op = "delete_document" /\ ret.result = FALSE
    /\ ret.proposal_id \in DOMAIN proposals_mem
    /\ ret.owner_email # OwnerOf(ret.proposal_id)
    /\ ret.document_id \in DOMAIN documents_mem[ret.proposal_id]

\* C7: a stored version is an immutable snapshot: what get_version returns for
\* an existing version is the same after any create_version, add_document or
\* delete_document, and no operation removes a version.
C7_VersionsImmutable ==
    [][\/ UNCHANGED <<proposals_mem, versions_mem>>
       \/ \A id \in DOMAIN proposals_mem : \A k \in 1..MaxVersions :
            LET v == get_version(id, k, OwnerOf(id))
            IN  v # None =>
                  get_version_in(proposals_mem', versions_mem', id, k, OwnerOf(id)) = v]_vars

\* version 1 still has its own payload and title after a later version
\* changed the proposal and a document was deleted
C7_Witness ==
    /\ ret.op = "delete_document" /\ ret.result = TRUE
    /\ LET id == ret.proposal_id
           v1 == get_version(id, 1, OwnerOf(id))
       IN  /\ Len(versions_mem[id]) = MaxVersions
           /\ v1.payload # proposals_mem[id].payload
           /\ v1.title # proposals_mem[id].title

\* C8: under any interleaving of concurrent create_version calls on one
\* proposal, no two stored versions of the proposal have the same number.
C8_UniqueVersionNumbers ==
    \A id \in DOMAIN versions_mem :
       \A i, j \in 1..Len(versions_mem[id]) :
          i # j => versions_mem[id][i].version # versions_mem[id][j].version

\* the stored version of a proposal with the highest number
RECURSIVE TopVersion(_)
TopVersion(vs) ==
    IF Len(vs) = 1 THEN vs[1]
    ELSE LET rest == TopVersion(Tail(vs))
         IN  IF vs[1].version > rest.version THEN vs[1] ELSE rest

\* C25: with calls made one at a time, the payload of every proposal is the
\* payload of its version with the highest number; the title of a proposal
\* changes only in a create_version that is given a title other than None,
\* and the version made by a create_version given None carries the title the
\* proposal has.
C25_PayloadAndTitleFollowVersions ==
    /\ [](\A id \in DOMAIN proposals_mem :
            proposals_mem[id].payload = TopVersion(versions_mem[id]).payload)
    /\ [][/\ \A id \in DOMAIN proposals_mem :
               proposals_mem'[id].title # proposals_mem[id].title =>
                  /\ ret'.op = "create_version" /\ ret'.status = "ok"
                  /\ ret'.proposal_id = id
                  /\ ret'.title # NoneStr
          /\ (ret'.op = "create_version" /\ ret'.status = "ok") =>
               /\ ret'.result.payload = ret'.payload
               /\ proposals_mem'[ret'.proposal_id].payload = ret'.payload
               /\ ret'.title = NoneStr =>
                    /\ ret'.result.title = proposals_mem[ret'.proposal_id].title
                    /\ ret'.result.title = proposals_mem'[ret'.proposal_id].title]_vars

\* C25 witness: a proposal titled "T1" got its second version from a
\* create_version without title and with another payload
C25_Witness ==
    /\ ret.op = "create_version" /\ ret.status = "ok"
    /\ ret.title = NoneStr
    /\ ret.result.version = 2
    /\ ret.result.title = "T1"
    /\ proposals_mem[ret.proposal_id].title = "T1"
    /\ proposals_mem[ret.proposal_id].payload = "p1"
    /\ versions_mem[ret.proposal_id][1].payload = "p2"

(***************************************************************************)
(* The contract sync: the daily request budget and the lock.               *)
(***************************************************************************)
Busy(r) == [op |-> "sync", runner |-> r, status |-> "busy", reason |-> NoneStr]
InRun(r) == runs[r].pc # "idle"

\* C2: in every UTC day, the number of fetch_sam_opportunities calls issued
\* is at most SAM_SYNC_MAX_REQUESTS_PER_DAY, whatever way the runs end.
C2_DailyFetchesWithinBudget ==
    \A d \in Days : fetches[d] <= SAM_SYNC_MAX_REQUESTS_PER_DAY

\* C3: at most one invocation is between acquiring and releasing
\* SAM_SYNC_LOCK, and the holder is that invocation; the step in which an
\* invocation returns "busy" issues no fetch and leaves the sync state, the
\* contracts, the lock and every run in progress as they were.
C3_OneRunAtATime ==
    /\ [](\A r \in Runners : InRun(r) <=> SAM_SYNC_LOCK = r)
    /\ [][\A r \in Runners :
            ret' = Busy(r) =>
              /\ SAM_SYNC_LOCK # NoneStr /\ SAM_SYNC_LOCK # r
              /\ UNCHANGED <<sync_state, SAM_SYNC_STATE, contracts, fetches, runs,
                             SAM_SYNC_LOCK>>]_vars

\* a manual request returned busy while the poller, having issued a fetch and
\* changed its session's copy of the state, still holds the lock
C3_Witness ==
    /\ ret = Busy("request")
    /\ SAM_SYNC_LOCK = "poller"
    /\ runs["poller"].pc = "fetch"
    /\ runs["poller"].request_count = 1
    /\ runs["poller"].inserts # <<>>

\* the invocation of r returns in this step with this status and reason
Returns(r, status, reason) ==
    /\ InRun(r)
    /\ ret' = [op |-> "sync", runner |-> r, status |-> status, reason |-> reason]

\* the requests of today that the run of r found when it started
FoundToday(r) ==
    IF runs[r].loaded.requests_today_date = runs[r].now \div TicksPerDay
    THEN runs[r].loaded.requests_today ELSE 0

\* C19: a failed fetch is not retried: in the step in which
\* fetch_sam_opportunities raises the run stops fetching, no fetch is issued
\* from then on until it returns, and it returns status "error"; when it has
\* returned, the persisted requests_today counts every fetch of the run, the
\* failed one included, and last_status, last_error and last_run_at record
\* the failure.
C19_FailedFetchIsNotRetried ==
    [][\A r \in Runners :
         /\ (runs[r].pc = "fetch" /\ runs'[r].pc = "commit"
             /\ runs'[r].result.reason = "fetch_failed") =>
               /\ runs'[r].result.status = "error"
               /\ fetches'[Day(clock)] = fetches[Day(clock)] + 1
               /\ runs'[r].request_count = runs[r].request_count + 1
         /\ (runs[r].pc = "commit" /\ runs[r].result.reason = "fetch_failed") =>
               /\ fetches' = fetches
               /\ runs'[r].pc \in {"commit", "idle"}
               /\ runs'[r].pc = "idle" => Returns(r, "error", "fetch_failed")
         /\ Returns(r, "error", "fetch_failed") =>
               /\ sync_state'.requests_today = FoundToday(r) + runs[r].request_count
               /\ runs[r].request_count >= 1
               /\ sync_state'.last_status = "error"
               /\ sync_state'.last_error = "fetch_failed"
               /\ sync_state'.last_run_at = runs[r].now]_vars

\* C18: every invocation that acquired SAM_SYNC_LOCK has released it when it
\* returns, whichever way it ends (min-interval skip, daily-limit skip,
\* fetch error, unexpected exception, success): the step in which a run
\* returns leaves the lock free, the lock is free whenever no run is in
\* progress, and an invocation is answered "busy" only while another
\* invocation is still running.
C18_LockReleasedOnEveryExit ==
    /\ []((\A r \in Runners : ~InRun(r)) => SAM_SYNC_LOCK = NoneStr)
    /\ [][\A r \in Runners :
            /\ (InRun(r) /\ runs'[r].pc = "idle") =>
                 /\ SAM_SYNC_LOCK = r
                 /\ SAM_SYNC_LOCK' = NoneStr
                 /\ ret'.runner = r
                 /\ <<ret'.status, ret'.reason>> \in
                      { <<"skipped", "min_interval">>, <<"skipped", "daily_limit_reached">>,
                        <<"error", "fetch_failed">>, <<"error", "exception">>,
                        <<"ok", NoneStr>> }
            /\ ret' = Busy(r) => \E other \in Runners \ {r} : InRun(other)]_vars

\* C18 witness: a run has ended by the unexpected exception and a later
\* manual invocation has acquired the lock and is fetching
C18_Witness ==
    /\ sync_state.last_status = "error"
    /\ sync_state.last_error = "exception"
    /\ SAM_SYNC_LOCK = "request"
    /\ runs["request"].pc = "fetch"
    /\ runs["request"].now > sync_state.last_run_at
    /\ runs["poller"].pc = "idle"

\* the run of r started less than SAM_SYNC_MIN_INTERVAL_MINUTES after the
\* persisted last_run_at
StartsWithinInterval(r) ==
    /\ runs[r].pc = "idle"
    /\ runs'[r].pc # "idle"
    /\ sync_state.last_run_at # NoneInt
    /\ (clock - sync_state.last_run_at) * (1440 \div TicksPerDay)
         < SAM_SYNC_MIN_INTERVAL_MINUTES

\* the run of r is being skipped for the min interval
SkippingForInterval(r) == InRun(r) /\ runs[r].result.reason = "min_interval"

\* C20: a scheduled run that starts less than SAM_SYNC_MIN_INTERVAL_MINUTES
\* after last_run_at is skipped with reason "min_interval": from its start
\* to its return no fetch is issued and last_run_at and the contracts stay
\* as they were, and it returns status "skipped", reason "min_interval".  A
\* manual run is never skipped for this reason, also when it starts within
\* the interval.
C20_MinIntervalSkip ==
    [][\A r \in Runners :
         /\ (StartsWithinInterval(r) /\ Trigger(r) = "scheduled") =>
               /\ runs'[r].result = [status |-> "skipped", reason |-> "min_interval"]
               /\ UNCHANGED <<fetches, contracts>>
               /\ sync_state'.last_run_at = sync_state.last_run_at
         /\ (StartsWithinInterval(r) /\ Trigger(r) = "manual") =>
               runs'[r].result.reason # "min_interval"
         /\ SkippingForInterval(r) =>
               /\ Trigger(r) = "scheduled"
               /\ UNCHANGED <<fetches, contracts>>
               /\ sync_state'.last_run_at = sync_state.last_run_at
               /\ runs'[r].pc = "idle" => Returns(r, "skipped", "min_interval")
               /\ runs'[r].pc # "idle" => runs'[r] = runs[r]
         /\ (ret'.op = "sync" /\ ret'.reason = "min_interval") =>
               /\ ret'.runner = r => (Trigger(r) = "scheduled" /\ SkippingForInterval(r))
               /\ ret'.status = "skipped"]_vars

\* C20 witness: the poller, started one tick after a run that stored a
\* contract, has returned skipped for the min interval; the row keeps the
\* earlier last_run_at and records the skip
C20_Witness ==
    /\ ret = [op |-> "sync", runner |-> "poller", status |-> "skipped",
              reason |-> "min_interval"]
    /\ sync_state.last_run_at = clock - 1
    /\ sync_state.last_error = "min_interval"
    /\ sync_state.updated_at = clock
    /\ contracts # <<>>

\* the run of r returns in this step, whichever way
RunEnds(r) == InRun(r) /\ runs'[r].pc = "idle"

\* the run of r found a requests_today_date that is not its UTC day
SawNewDay(r) == runs[r].loaded.requests_today_date # runs[r].now \div TicksPerDay

\* C21: the persisted requests_today is reset exactly when a sync run or a
\* status query observes a UTC date different from requests_today_date: a
\* status query that does stores that date and 0, a run that does has
\* stored that date when it returns, with no more than its own fetches
\* counted; requests_today_date changes in no other step, and while it
\* stays the same requests_today does not decrease; requests_today never
\* exceeds SAM_SYNC_MAX_REQUESTS_PER_DAY.
C21_CounterResetsWithTheDay ==
    /\ [](sync_state.requests_today \in 0..SAM_SYNC_MAX_REQUESTS_PER_DAY)
    /\ [][/\ ret'.op = "sam_sync_status" =>
               IF sync_state.requests_today_date # clock \div TicksPerDay
               THEN /\ sync_state'.requests_today_date = clock \div TicksPerDay
                    /\ sync_state'.requests_today = 0
               ELSE /\ sync_state'.requests_today_date = sync_state.requests_today_date
                    /\ sync_state'.requests_today = sync_state.requests_today
          /\ \A r \in Runners :
               (RunEnds(r) /\ SawNewDay(r)) =>
                  /\ sync_state'.requests_today_date = runs[r].now \div TicksPerDay
                  /\ sync_state'.requests_today <= runs[r].request_count
          /\ sync_state'.requests_today_date # sync_state.requests_today_date =>
               \/ ret'.op = "sam_sync_status"
               \/ \E r \in Runners : RunEnds(r) /\ SawNewDay(r)
          /\ sync_state'.requests_today_date = sync_state.requests_today_date =>
               sync_state'.requests_today >= sync_state.requests_today]_vars

(***************************************************************************)
(* The job registry.                                                       *)
(***************************************************************************)
\* C9: the job create_job returns is stored with status "queued" and get_job
\* returns it with the owner_email, job_kind and request_payload given; after
\* update_status with a result_payload, get_job returns the new status and
\* that result_payload; update_status on a job id that is not stored returns
\* None and leaves the registry as it was.
C9_JobRoundTrip ==
    [][/\ ret'.op = "create_job" =>
            LET job == get_job_in(jobs_memory', ret'.job_id)
            IN  /\ job # None
                /\ job["status"] = "queued"
                /\ job["owner_email"] = ret'.owner_email
                /\ job["job_kind"] = ret'.job_kind
                /\ job["request_payload"] = ret'.request_payload
       /\ (ret'.op = "update_status" /\ get_job(ret'.job_id) # None) =>
            LET job == get_job_in(jobs_memory', ret'.job_id)
            IN  /\ job # None
                /\ job = ret'.result
                /\ job["status"] = ret'.new_status
                /\ ret'.result_payload # NoneStr =>
                     job["result_payload"] = ret'.result_payload
       /\ (ret'.op = "update_status" /\ get_job(ret'.job_id) = None) =>
            /\ ret'.result = None
            /\ jobs_memory' = jobs_memory]_vars

\* a running job was completed with a result payload at a later time
C9_Witness ==
    /\ ret.op = "update_status"
    /\ ret.new_status = "completed"
    /\ ret.result_payload = "r1"
    /\ ret.result # None
    /\ get_job(ret.job_id)["result_payload"] = "r1"
    /\ "started_at" \in DOMAIN get_job(ret.job_id)
    /\ get_job(ret.job_id)["finished_at"] > get_job(ret.job_id)["started_at"]

\* the key is stored with the same value, or missing, in both jobs
SameAt(before, after, k) ==
    /\ (k \in DOMAIN before) = (k \in DOMAIN after)
    /\ k \in DOMAIN before => after[k] = before[k]

\* C23: for a stored job, update_status sets started_at to the time of the
\* call when it moves the job to "running" and the job has no started_at
\* yet, and leaves started_at as it is in every other case; it sets
\* finished_at to the time of the call whenever the status is "completed" or
\* "failed"; a call without error leaves the stored error as it is, a call
\* without result_payload the stored result_payload.
C23_JobTimesAndOmittedFields ==
    [][(ret'.op = "update_status" /\ get_job(ret'.job_id) # None) =>
          LET before == get_job(ret'.job_id)
              after == get_job_in(jobs_memory', ret'.job_id)
          IN  /\ after # None
              /\ IF "started_at" \notin DOMAIN before /\ ret'.new_status = "running"
                 THEN "started_at" \in DOMAIN after /\ after["started_at"] = clock
                 ELSE SameAt(before, after, "started_at")
              /\ ret'.new_status \in {"completed", "failed"} =>
                   "finished_at" \in DOMAIN after /\ after["finished_at"] = clock
              /\ ret'.error = NoneStr => SameAt(before, after, "error")
              /\ ret'.result_payload = NoneStr => SameAt(before, after, "result_payload")]_vars

\* C23 witness: a job that failed with an error was moved to "running" a
\* second time, later than the first: started_at is still the first time, and
\* the call, made without error or result_payload, left the error in place
C23_Witness ==
    /\ ret.op = "update_status"
    /\ ret.new_status = "running"
    /\ ret.job_id \in DOMAIN jobs_memory
    /\ get_job(ret.job_id)["started_at"] < get_job(ret.job_id)["updated_at"]
    /\ "finished_at" \in DOMAIN get_job(ret.job_id)
    /\ get_job(ret.job_id)["started_at"] < get_job(ret.job_id)["finished_at"]
    /\ "error" \in DOMAIN get_job(ret.job_id)
    /\ get_job(ret.job_id)["error"] = "e1"

\* C24: update_status loses no update when two calls on the same job
\* overlap: the save of a call changes the stored error only when the call
\* was given an error, and the stored result_payload only when it was given
\* one, so what the other call stored in between stays in the final record.
C24_NoLostUpdate ==
    [][\A t \in Threads :
         (threads[t].pc = "save" /\ threads'[t].pc = "idle") =>
            LET before == get_job(ret'.job_id)
                after == get_job_in(jobs_memory', ret'.job_id)
            IN  /\ ret'.error = NoneStr => SameAt(before, after, "error")
                /\ ret'.result_payload = NoneStr =>
                     SameAt(before, after, "result_payload")]_vars

(***************************************************************************)
(* The contract store.                                                     *)
(***************************************************************************)
\* C10 as stated: create_contract assigns a non-empty contract_id and
\* get_contract returns the stored row; update_contract returns and stores
\* the previous row with exactly the patch's fields overwritten and the same
\* contract_id, a contract_id in the patch being ignored; update_contract on
\* an unknown id returns None and stores nothing.
C10_UpdateOverwritesExactlyThePatch ==
    [][/\ ret'.op = "create_contract" =>
            /\ ret'.result["contract_id"] # ""
            /\ get_contract_in(contracts_mem', ret'.result["contract_id"]) = ret'.result
       /\ (ret'.op = "update_contract" /\ get_contract(ret'.contract_id) # None) =>
            LET previous == get_contract(ret'.contract_id)
                patch == ret'.patch
                new == ret'.result
            IN  /\ get_contract_in(contracts_mem', ret'.contract_id) = new
                /\ DOMAIN contracts_mem' = DOMAIN contracts_mem
                /\ new["contract_id"] = ret'.contract_id
                /\ DOMAIN new = DOMAIN previous \cup DOMAIN patch
                /\ \A k \in DOMAIN new \ {"contract_id"} :
                     new[k] = IF k \in DOMAIN patch THEN patch[k] ELSE previous[k]
       /\ (ret'.op = "update_contract" /\ get_contract(ret'.contract_id) = None) =>
            /\ ret'.result = None
            /\ contracts_mem' = contracts_mem]_vars

\* C10 amended: as stated, except that update_contract sets updated_at to
\* the time of the call whatever the patch says, stores the other patch
\* fields normalized (a created_at that normalizes to None becomes
\* updated_at), and keeps every remaining field up to that normalization.
C10_UpdateMergesTheNormalizedPatch ==
    [][/\ ret'.op = "create_contract" =>
            /\ ret'.result["contract_id"] # ""
            /\ get_contract_in(contracts_mem', ret'.result["contract_id"]) = ret'.result
       /\ (ret'.op = "update_contract" /\ get_contract(ret'.contract_id) # None) =>
            LET previous == get_contract(ret'.contract_id)
                patch == ret'.patch
                new == ret'.result
            IN  /\ get_contract_in(contracts_mem', ret'.contract_id) = new
                /\ DOMAIN contracts_mem' = DOMAIN contracts_mem
                /\ new["contract_id"] = ret'.contract_id
                /\ new["updated_at"] = Naive(clock)
                /\ DOMAIN new = DOMAIN previous \cup DOMAIN patch
                /\ \A k \in DOMAIN new \ {"contract_id", "updated_at"} :
                     LET given == IF k \in DOMAIN patch THEN patch[k] ELSE previous[k]
                     IN  new[k] = IF k = "created_at" /\ normalize_field(k, given) = DtNone
                                  THEN new["updated_at"]
                                  ELSE normalize_field(k, given)
       /\ (ret'.op = "update_contract" /\ get_contract(ret'.contract_id) = None) =>
            /\ ret'.result = None
            /\ contracts_mem' = contracts_mem]_vars

\* con_1 was updated with a patch that names another contract_id and a raw
\* status: the row is still con_1, nothing is stored as con_3, the status is
\* stored normalized and updated_at is later than created_at
C10_Witness ==
    /\ ret.op = "update_contract"
    /\ ret.contract_id = "con_1"
    /\ ret.patch = [title |-> "T2", contract_id |-> "con_3"]
    /\ ret.result # None
    /\ "con_3" \notin DOMAIN contracts_mem
    /\ get_contract("con_1")["title"] = "T2"
    /\ get_contract("con_1")["status"] = <<"n", "o", "_", "b", "i", "d">>
    /\ get_contract("con_1")["updated_at"].t > get_contract("con_1")["created_at"].t

(***************************************************************************)
(* The estimate.                                                           *)
(***************************************************************************)
\* C6: for an input whose modules are in the catalog and whose subtotal
\* before the reserve is positive, calculate_estimate returns an estimate
\* whose risk_reserve is risk_reserve_percentage times its total_cost, for a
\* prime contractor and for one that is not.
C6_ReserveIsTargetShareOfTotal ==
    (/\ ret.op = "calculate_estimate"
     /\ \A i \in 1..Len(ret.input.modules) : get_module(ret.input.modules[i]) # None
     /\ LET modules == [i \in 1..Len(ret.input.modules) |->
                          get_module(ret.input.modules[i])]
        IN  Positive(subtotal_without_risk(
                       SumOver(role_breakdown_of(modules, ret.input), "cost"), ret.input)))
    => /\ ret.status = "ok"
       /\ ret.result.risk_reserve = Mul(risk_reserve_percentage, ret.result.total_cost)

\* the modules of an input are all in the catalog
KnownModules(input_data) ==
    \A i \in 1..Len(input_data.modules) : get_module(input_data.modules[i]) # None

\* base hours x base multiplier x environment factor x integration factor x
\* sites multiplier x override, summed over the selected modules
RECURSIVE StatedRoleHours(_, _, _)
StatedRoleHours(role_id, module_ids, input_data) ==
    IF module_ids = <<>> THEN Zero
    ELSE LET table == base_hours_by_role[Head(module_ids)]
             base == IF role_id \in DOMAIN table THEN table[role_id] ELSE 0
             env_factor == IF input_data.environment \in DOMAIN environment_factor
                           THEN environment_factor[input_data.environment] ELSE One
             integration == IF input_data.integration_level \in DOMAIN integration_complexity
                            THEN integration_complexity[input_data.integration_level]
                            ELSE One
             sites == IF input_data.sites < 1 THEN 1 ELSE input_data.sites
             sites_multiplier == Add(One, Mul(Rat(15, 100), Whole(sites - 1)))
             override == IF role_id \in DOMAIN input_data.custom_role_overrides
                         THEN input_data.custom_role_overrides[role_id] ELSE One
         IN  Add(Mul(Mul(Mul(Whole(base), base_multiplier[input_data.complexity]),
                         Mul(env_factor, integration)),
                     Mul(sites_multiplier, override)),
                 StatedRoleHours(role_id, Tail(module_ids), input_data))

\* the hours of a role in a result: 0 for a role the breakdown leaves out
HoursIn(result, role_id) ==
    IF role_id \in DOMAIN result.breakdown_by_role
    THEN result.breakdown_by_role[role_id].hours ELSE Zero

\* C13: for an input whose modules are in the catalog, calculate_estimate
\* returns, for each role, the sum over the selected modules of base hours x
\* base multiplier x environment factor x integration factor x sites
\* multiplier x override (1.0 for a key missing from a table), and
\* total_labor_hours is the sum of the role hours.
C13_RoleHoursAreTheProductOfTheTables ==
    (ret.op = "calculate_estimate" /\ KnownModules(ret.input))
    => /\ ret.status = "ok"
       /\ \A r \in DOMAIN base_hourly_rate :
            HoursIn(ret.result, r) = StatedRoleHours(r, ret.input.modules, ret.input)
       /\ ret.result.total_labor_hours =
            SumSeq([i \in 1..Len(RoleOrder) |->
                      StatedRoleHours(RoleOrder[i], ret.input.modules, ret.input)])

\* the method of an input is "historical"
IsHistorical(input_data) ==
    /\ "estimating_method" \in DOMAIN input_data
    /\ input_data.estimating_method = "historical"

\* the hours of the selected historical estimates that have positive hours
HistoricalHours(input_data) ==
    IF "historical_estimates" \notin DOMAIN input_data THEN <<>>
    ELSE LET used == SelectSeq(input_data.historical_estimates,
                               LAMBDA h : h.selected /\ h.hours > 0)
         IN  [i \in 1..Len(used) |-> Whole(used[i].hours)]

\* the estimate with no historical scaling
EngineeringEstimate(input_data) ==
    LET modules == [i \in 1..Len(input_data.modules) |-> get_module(input_data.modules[i])]
        breakdown == role_breakdown_of(modules, input_data)
        total_labor_cost == SumOver(breakdown, "cost")
        subtotal == subtotal_without_risk(total_labor_cost, input_data)
        risk_reserve == risk_reserve_of(subtotal, input_data)
    IN  [total_labor_hours |-> SumOver(breakdown, "hours"),
         total_labor_cost |-> total_labor_cost,
         risk_reserve |-> risk_reserve,
         total_cost |-> total_cost_of(Add(subtotal, risk_reserve), input_data),
         breakdown_by_role |-> breakdown]

\* C15: with the method "historical" and a selected historical estimate of
\* positive hours, total_labor_hours is the average of those hours up to 0.1
\* hour per role of rounding (half of it either way); otherwise the result
\* is the unscaled engineering estimate.
C15_HistoricalScalesToTheAverage ==
    (ret.op = "calculate_estimate" /\ KnownModules(ret.input))
    => /\ ret.status = "ok"
       /\ LET hours == HistoricalHours(ret.input)
              engineering == EngineeringEstimate(ret.input)
          IN  IF IsHistorical(ret.input) /\ hours # <<>>
              THEN LET average == Div(SumSeq(hours), Whole(Len(hours)))
                       slack == Mul(Rat(1, 20),
                                    Whole(Cardinality(DOMAIN ret.result.breakdown_by_role)))
                       diff == Sub(ret.result.total_labor_hours, average)
                   IN  /\ ~Positive(Sub(diff, slack))
                       /\ ~Positive(Sub(Neg(diff), slack))
              ELSE \A k \in DOMAIN engineering : ret.result[k] = engineering[k]

\* C16: for a prime contractor whose modules are in the catalog and whose
\* subtotal before the reserve is positive, risk_reserve plus margin equals
\* risk_reserve_percentage times total_cost.
C16_ReservePlusMarginIsTargetShare ==
    (/\ ret.op = "calculate_estimate"
     /\ KnownModules(ret.input)
     /\ ret.input.is_prime_contractor
     /\ Positive(EngineeringEstimate(ret.input).total_cost))
    => /\ ret.status = "ok"
       /\ LET margin == Mul(Div(ret.result.total_cost, Add(One, prime_contractor_margin)),
                            prime_contractor_margin)
          IN  Add(ret.result.risk_reserve, margin)
                = Mul(risk_reserve_percentage, ret.result.total_cost)

\* the selected module ids are distinct
DistinctModules(input_data) ==
    \A i, j \in 1..Len(input_data.modules) :
        input_data.modules[i] = input_data.modules[j] => i = j

\* the sum of a field over breakdown_by_module, in the order of the selection
SumOverModules(result, module_ids, key) ==
    SumSeq([i \in 1..Len(module_ids) |-> result.breakdown_by_module[module_ids[i]][key]])

\* C29: for a selection of distinct catalog modules calculate_estimate
\* returns a breakdown_by_module whose costs sum to total_labor_cost and
\* whose hours sum to total_labor_hours.
C29_ModulesSumToTheTotals ==
    (/\ ret.op = "calculate_estimate"
     /\ KnownModules(ret.input)
     /\ DistinctModules(ret.input)
     /\ ~IsHistorical(ret.input))
    => /\ ret.status = "ok"
       /\ SumOverModules(ret.result, ret.input.modules, "cost") = ret.result.total_labor_cost
       /\ SumOverModules(ret.result, ret.input.modules, "hours")
            = ret.result.total_labor_hours

\* the number of times a warning is in a list of warnings
Times(warnings, w) == Cardinality({i \in 1..Len(warnings) : warnings[i] = w})

\* the input without the module ids that are not in the catalog
KnownOnly(input_data) ==
    [input_data EXCEPT !.modules = SelectSeq(input_data.modules,
                                             LAMBDA id : get_module(id) # None)]

\* C30: validate_estimate returns, for each selected id that is not in the
\* catalog, the warning "Module <id> not found" once per occurrence, and
\* calculate_estimate returns for an input with such an id the result of the
\* same input without it.
C30_UnknownModuleIsIgnored ==
    /\ ret.op = "validate_estimate" =>
         /\ ret.status = "ok"
         /\ \A i \in 1..Len(ret.input.modules) :
              get_module(ret.input.modules[i]) = None =>
                Times(ret.result, <<"Module ", ret.input.modules[i], " not found">>)
                  = Cardinality({j \in 1..Len(ret.input.modules) :
                                   ret.input.modules[j] = ret.input.modules[i]})
    /\ (ret.op = "calculate_estimate" /\ ~KnownModules(ret.input)) =>
         /\ ret.status = "ok"
         /\ LET known == KnownOnly(ret.input)
                modules == [i \in 1..Len(known.modules) |-> get_module(known.modules[i])]
            IN  ret.result = estimation_result(modules,
                                               role_breakdown_of(modules, known), known)

(***************************************************************************)
(* Properties of the store services across environments (SpecConfig).      *)
(***************************************************************************)
ProposalWrites == {"create_proposal", "create_version", "add_document", "delete_document"}
JobWrites == {"create_job", "save_job", "update_status"}
ContractWrites == {"create_contract", "save_contract", "update_contract", "save_sync_state"}

\* the table names of a service are all unset or empty
NamesUnset(names) == \A n \in names : Falsy(env[n])

\* C11: a service whose table names are unset or empty is in memory mode and
\* is configured exactly when AWS_LAMBDA_FUNCTION_NAME is unset (read as: not
\* set to a non-empty value); a write on a service that is not configured
\* raises RuntimeError and stores nothing, and get_job returns None there.
C11_MemoryFallback ==
    /\ [](/\ NamesUnset({"PROPOSALS_TABLE_NAME", "PROPOSAL_VERSIONS_TABLE_NAME",
                         "PROPOSAL_DOCUMENTS_TABLE_NAME"})
             => /\ ProposalStoreService_mode = "memory"
                /\ ProposalStoreService_is_configured
                     <=> Falsy(env.AWS_LAMBDA_FUNCTION_NAME)
          /\ NamesUnset({"REPORT_JOBS_TABLE_NAME"})
             => /\ ReportJobService_mode = "memory"
                /\ ReportJobService_is_configured <=> Falsy(env.AWS_LAMBDA_FUNCTION_NAME)
          /\ NamesUnset({"CONTRACTS_TABLE_NAME", "CONTRACT_SYNC_TABLE_NAME"})
             => /\ ContractStoreService_mode = "memory"
                /\ ContractStoreService_is_configured
                     <=> Falsy(env.AWS_LAMBDA_FUNCTION_NAME))
    /\ [][/\ (~ProposalStoreService_is_configured /\ ret'.op \in ProposalWrites)
             => (ret'.status = "RuntimeError" /\ UNCHANGED storeVars)
          /\ (~ReportJobService_is_configured /\ ret'.op \in JobWrites)
             => (ret'.status = "RuntimeError" /\ UNCHANGED jobs_memory)
          /\ (~ReportJobService_is_configured /\ ret'.op = "get_job")
             => (ret'.status = "ok" /\ ret'.result = None)
          /\ (~ContractStoreService_is_configured /\ ret'.op \in ContractWrites)
             => (ret'.status = "RuntimeError" /\ UNCHANGED <<contracts_mem, sync_mem>>)
         ]_vars

(***************************************************************************)
(* Properties of get_current_user (SpecAuth).                              *)
(***************************************************************************)
\* the header is a Bearer header: the scheme, in any case, and a space
BearerHeader(h) ==
    /\ h # NoneHeader
    /\ Len(h) >= 7
    /\ \A i \in 1..6 : h[i] \in {<<"b", "e", "a", "r", "e", "r">>[i],
                                <<"B", "E", "A", "R", "E", "R">>[i]}
    /\ h[7] = " "

\* the token a Bearer header carries: what follows the scheme, blanks aside
CarriedToken(h) ==
    LET rest == SelectSeq(SubSeq(h, 8, Len(h)), LAMBDA c : c # " ")
    IN  IF Len(rest) = 1 /\ Len(Strip(SubSeq(h, 8, Len(h)))) = 1
           /\ rest[1] \in DOMAIN TokenTable
        THEN TokenTable[rest[1]] ELSE Garbage

CognitoConfigured(cfg) ==
    cfg.COGNITO_REGION # NoneStr /\ cfg.COGNITO_USER_POOL_ID # NoneStr
    /\ cfg.COGNITO_CLIENT_ID # NoneStr

\* the token verifies: a Cognito JWT signed by a key of the pool, from the
\* pool's issuer, for this client, not expired, with an email; or, with
\* Cognito not configured, a local HS256 access token
Verifies(tok, cfg) ==
    IF CognitoConfigured(cfg)
    THEN /\ cfg.jwks_up
         /\ tok.header_ok /\ tok.kid \in JwksKids /\ tok.rs256_ok
         /\ tok.iss = COGNITO_ISS
         /\ (tok.aud = COGNITO_CLIENT_ID
             \/ (tok.aud \in {NoneStr, ""} /\ tok.client_id = COGNITO_CLIENT_ID))
         /\ tok.exp # NoneInt /\ tok.exp >= TokenNow
         /\ tok.email \notin {NoneStr, ""}
    ELSE tok.hs256_ok /\ tok.purpose = "access"

\* the identity a verified token names
IdentityOf(tok, cfg) ==
    IF CognitoConfigured(cfg) THEN tok.email
    ELSE IF tok.sub = NoneStr THEN "None" ELSE tok.sub

\* C12: with AUTH_REQUIRED, a missing header, a header that is not a Bearer
\* header and a token that fails verification all end in HTTP 401, and a
\* user identity is returned only for a token that verifies; without
\* AUTH_REQUIRED the same cases return the default dev user; a token that
\* verifies gives its identity either way.
C12_AuthRequiredMeans401 ==
    ret.op = "get_current_user" =>
      LET req == ret.request
          h == req.authorization
          fails == \/ ~BearerHeader(h)
                   \/ ~Verifies(CarriedToken(h), req.cognito)
      IN  /\ (req.AUTH_REQUIRED /\ fails)
             => (ret.status = "HTTPException" /\ ret.status_code = 401)
          /\ (~req.AUTH_REQUIRED /\ fails)
             => (ret.status = "ok" /\ ret.result = DEV_DEFAULT_USER_EMAIL)
          /\ ~fails
             => (ret.status = "ok"
                 /\ ret.result = IdentityOf(CarriedToken(h), req.cognito))

\* with AUTH_REQUIRED and Cognito configured, an expired token was refused with 401
C12_Witness ==
    /\ ret.op = "get_current_user"
    /\ ret.request.AUTH_REQUIRED
    /\ CognitoConfigured(ret.request.cognito)
    /\ ret.request.authorization = <<"B", "e", "a", "r", "e", "r", " ", "cog_expired">>
    /\ ret.status = "HTTPException"
    /\ ret.status_code = 401

\* a local HS256 token with a good signature, issued for this purpose
IssuedFor(tok, purpose) == tok.hs256_ok /\ tok.purpose = purpose

\* the token of this name
Named(name) == IF name \in DOMAIN TokenTable THEN TokenTable[name] ELSE Garbage

\* C28: local HS256 tokens are bound to their purpose: a request whose
\* bearer token was issued with purpose "magic" is answered as a request
\* without token is, with 401 under AUTH_REQUIRED and with the default dev
\* user without it, never with the token's email as the verified identity;
\* auth_exchange accepts exactly the tokens issued with purpose "magic", any
\* other token, an "access" token too, ends in HTTP 400, and for a magic
\* token it returns the token's email and an "access" token for that email.
C28_TokensAreBoundToTheirPurpose ==
    /\ (ret.op = "get_current_user" /\ BearerHeader(ret.request.authorization)
        /\ IssuedFor(CarriedToken(ret.request.authorization), "magic")) =>
          IF ret.request.AUTH_REQUIRED
          THEN ret.status = "HTTPException" /\ ret.status_code = 401
          ELSE ret.status = "ok" /\ ret.result = DEV_DEFAULT_USER_EMAIL
    /\ ret.op = "auth_exchange" =>
          IF IssuedFor(Named(ret.token), "magic")
          THEN /\ ret.status = "ok"
               /\ ret.result.email = (IF Named(ret.token).sub = NoneStr THEN "None"
                                      ELSE Named(ret.token).sub)
               /\ IssuedFor(ret.result.access_token, "access")
               /\ ret.result.access_token.sub = ret.result.email
               /\ ret.result.access_token.exp > TokenNow
          ELSE ret.status = "HTTPException" /\ ret.status_code = 400

\* C28 witness: the magic token of a@example.com, refused with 401 as a
\* bearer token under AUTH_REQUIRED, was exchanged for an access token of
\* a@example.com
C28_Witness ==
    /\ ret.op = "auth_exchange"
    /\ ret.token = "local_magic"
    /\ ret.status = "ok"
    /\ ret.result.email = "a@example.com"
    /\ verify_token(ret.result.access_token, "access") = Ok("a@example.com")
    /\ auth_request.AUTH_REQUIRED
    /\ auth_request.authorization = <<"B", "e", "a", "r", "e", "r", " ", "local_magic">>
    /\ current_user(auth_request) = HTTPException(401)

(***************************************************************************)
(* Properties of the LLM-backed calls.                                      *)
(***************************************************************************)
\* the call just made reached a chat-completion call that raised
CompletionRaised ==
    /\ "request" \in DOMAIN ret
    /\ ret.request.OPENAI_API_KEY \notin {NoneStr, ""}
    /\ ret.request.sdk
    /\ ret.request.completion = "raises"

\* the sections a narrative call was asked for
AskedSections ==
    IF ret.request.sections = <<NoneStr>>
    THEN {"executive_summary", "assumptions", "risks", "recommendations"}
    ELSE {ret.request.sections[i] : i \in 1..Len(ret.request.sections)}

\* the report came back as a PDF with the deterministic subtasks and this status
ReportDegradedTo(status) ==
    /\ ret.status = "ok"
    /\ ret.result.pdf
    /\ ret.result.module_subtasks = "deterministic_subtasks"
    /\ ret.result.subtask_generation_status = status

\* C14: a failing LLM call degrades to deterministic output: when the
\* chat-completion call raises, generate_narrative and
\* rewrite_narrative_section return the offline text of the sections asked
\* for, and generate_report asked for AI subtasks still returns the PDF with
\* the deterministic subtasks, marked "ai_failed", or "ai_disabled" when no
\* API key is configured.
C14_FailingLlmDegrades ==
    /\ (CompletionRaised /\ ret.op = "generate_narrative") =>
          /\ ret.status = "ok"
          /\ \A k \in DOMAIN ret.result : ret.result[k] = <<"offline", k>>
          /\ \A k \in AskedSections :
                k \in {"executive_summary", "assumptions", "risks", "recommendations"}
                   => k \in DOMAIN ret.result
    /\ (CompletionRaised /\ ret.op = "rewrite_narrative_section"
        /\ ret.request.section \in {"executive_summary", "assumptions", "risks",
                                    "recommendations"}) =>
          /\ ret.status = "ok"
          /\ ret.result[1] = <<"offline", ret.request.section>>
    /\ (CompletionRaised /\ ret.op = "generate_report" /\ ret.request.use_ai_subtasks) =>
          ReportDegradedTo("ai_failed")
    /\ ("request" \in DOMAIN ret /\ ret.op = "generate_report"
        /\ ret.request.use_ai_subtasks
        /\ ret.request.OPENAI_API_KEY \in {NoneStr, ""}) =>
          ReportDegradedTo("ai_disabled")

(***************************************************************************)
(* The sync state store.                                                   *)
(***************************************************************************)
\* a time that was given with the state: None and "" count as not given
GivenTime(state, k) == k \in DOMAIN state /\ state[k] \notin {DtNone, DtBlank}

\* what a save of this state at this time leaves to be read back: the given
\* fields as given, created_at and updated_at being the time of the save
\* where the state gives none
SavedFields(state, now) ==
    [k \in DOMAIN state \cup {"created_at", "updated_at"} |->
        IF k \in {"created_at", "updated_at"}
        THEN IF GivenTime(state, k) THEN state[k] ELSE now
        ELSE state[k]]

\* C17: in memory mode, save_sync_state(state) followed by
\* get_sync_state(state["source"]) returns the saved fields, the latest save
\* of a source replacing the earlier ones; a save changes the state of no
\* other source; get_sync_state changes nothing, returns what was last saved
\* for its source, and None for a source that was never saved.
C17_SyncStateRoundTrip ==
    /\ [](ret.op = "get_sync_state" =>
            /\ ret.status = "ok"
            /\ ret.result = IF ret.source \in DOMAIN sync_mem THEN sync_mem[ret.source]
                            ELSE None)
    /\ [][/\ ret'.op = "save_sync_state" =>
               /\ ret'.status = "ok"
               /\ DOMAIN sync_mem' = DOMAIN sync_mem \cup {ret'.state.source}
               /\ sync_mem'[ret'.state.source] = SavedFields(ret'.state, Aware(clock, 0))
               /\ get_sync_state_in(sync_mem', ret'.state.source)
                     = SavedFields(ret'.state, Aware(clock, 0))
               /\ \A s \in DOMAIN sync_mem \ {ret'.state.source} :
                     sync_mem'[s] = sync_mem[s]
          /\ ret'.op = "get_sync_state" => sync_mem' = sync_mem]_vars

\* C17 witness: after two earlier saves, one of them of "sam.gov", a state of
\* "manual" without created_at was saved at time 2 and get_sync_state("manual")
\* returns its fields, the state of "sam.gov" standing beside it
C17_Witness ==
    /\ ret.op = "get_sync_state"
    /\ ret.source = "manual"
    /\ ret.result # None
    /\ ret.result.requests_today = 3
    /\ ret.result.created_at = Aware(2, 0)
    /\ ret.result.updated_at = Aware(1, 0)
    /\ "sam.gov" \in DOMAIN sync_mem
    /\ sync_mem["sam.gov"].requests_today = 1

(***************************************************************************)
(* The contract table: what the sync and the endpoints put into it.        *)
(***************************************************************************)
\* no two rows of the table have the same source and the same source_id
OnePerSourceId(table) ==
    \A i, j \in 1..Len(table) :
        (/\ table[i].source = table[j].source
         /\ table[i].source_id = table[j].source_id
         /\ table[i].source_id # NoneStr) => i = j

\* what the session of a run holds: every source_id seen once, as an update
\* of the row that has it or as the insert of a row that none has
SeenOnce(run) ==
    /\ run.inserted + run.updated = Cardinality(run.seen)
    /\ run.inserted = Len(run.inserts)
    /\ run.updated = Cardinality(DOMAIN run.updates)
    /\ \A id \in DOMAIN run.updates :
         /\ id \in 1..Len(contracts)
         /\ contracts[id].source = "sam.gov"
         /\ contracts[id].source_id \in run.seen
    /\ \A i \in 1..Len(run.inserts) :
         /\ ~Falsy(run.inserts[i].source_id)
         /\ run.inserts[i].source_id \in run.seen
         /\ matching(contracts, run.inserts[i].source, run.inserts[i].source_id) = {}
         /\ \A j \in 1..Len(run.inserts) :
              run.inserts[i].source_id = run.inserts[j].source_id => i = j

\* C22: the table has at most one contract per (source, source_id); in a
\* run every record with a source_id is processed once per source_id, as
\* an update when the table has its source_id and as an insert otherwise, a
\* record without source_id is skipped, and inserted + updated is the
\* number of source_ids seen; the commit of a run appends the inserted rows
\* and leaves the rows there were at their (source, source_id).
C22_OneContractPerSourceId ==
    /\ [](OnePerSourceId(contracts))
    /\ [](\A r \in Runners : InRun(r) => SeenOnce(runs[r]))
    /\ [][\A r \in Runners :
            (ret'.op = "sync" /\ ret'.runner = r /\ ret'.status = "ok") =>
              /\ Len(contracts') = Len(contracts) + runs[r].inserted
              /\ \A id \in 1..Len(contracts) :
                   /\ contracts'[id].source = contracts[id].source
                   /\ contracts'[id].source_id = contracts[id].source_id]_vars

\* C22 witness: a run has returned "ok" and the one contract of n1, inserted
\* with title "A" by an earlier run, carries the payload of a later record
\* of n1
C22_Witness ==
    /\ ret.op = "sync"
    /\ ret.status = "ok"
    /\ Len(contracts) = 1
    /\ contracts[1].source_id = "n1"
    /\ contracts[1].title = "A"
    /\ contracts[1].raw_payload = <<"n1", NoneStr>>
    /\ contracts[1].last_seen_at > 0

\* the columns a sync update may write
SourceWritten == {"title", "raw_payload", "last_seen_at", "updated_at"}

\* C27: the commit of a sync run leaves every column of the rows there
\* were as it is, the user-managed ones among them, except title (for the
\* source fields), raw_payload, last_seen_at and updated_at, and a title is
\* never replaced by None or by a blank string.
C27_SyncKeepsUserFields ==
    [][\A r \in Runners :
         (runs[r].pc = "commit" /\ runs'[r].pc = "idle") =>
           \A id \in 1..Len(contracts) :
             /\ \A f \in DOMAIN contracts[id] \ SourceWritten :
                  contracts'[id][f] = contracts[id][f]
             /\ contracts'[id].title # contracts[id].title =>
                  contracts'[id].title \notin {NoneStr, "", " "}]_vars

\* C27 witness: a run has returned "ok" after it updated, from a record
\* with a blank title, the contract that POST /contracts created with title
\* "T" and that PATCH gave a status and award notes
C27_Witness ==
    /\ ret.op = "sync"
    /\ ret.status = "ok"
    /\ Len(contracts) = 1
    /\ contracts[1].title = "T"
    /\ contracts[1].raw_payload = <<"n1", " ">>
    /\ contracts[1].status = "submitted"
    /\ contracts[1].award_notes = "price"
    /\ contracts[1].report_submitted_at # NoneInt

\* the request carries a status: POST with a status that is not null, PATCH
\* with the key "status"
RequestsStatus(call) ==
    \/ call.op = "create_contract" /\ call.body.status # NoStatus
    \/ call.op = "update_contract" /\ "status" \in DOMAIN call.body

\* C26: every row of the table has a status of CONTRACT_STATUSES; a
\* request that carries a status either succeeds and leaves the trimmed,
\* lower-cased status with "_" for "-" and " ", and "submitted" for
\* "pending", in its contract, or, when that is not one of
\* CONTRACT_STATUSES, is answered with HTTP 400 and leaves the table as it is.
C26_StatusIsOneOfTheFive ==
    /\ [](\A id \in 1..Len(contracts) : contracts[id].status \in CONTRACT_STATUSES)
    /\ [][(ret'.op \in {"create_contract", "update_contract"} /\ RequestsStatus(ret')) =>
            LET stated == normalize_contract_status(ret'.body.status)
            IN  IF ret'.body.status # NoStatus /\ stated.status = "ok"
                THEN ret'.status = "ok" => contracts'[ret'.result].status = stated.result
                ELSE /\ ret'.status = "HTTPException"
                     /\ ret'.status_code = 400
                     /\ contracts' = contracts]_vars

====
